---------------------------- MODULE Spec2Model ----------------------------
(***************************************************************************)
(* Verification model of nonebot-plugin-vrpspdouchong.                     *)
(*                                                                         *)
(* Part 1 (specification Spec): the super-chat pagination engine of        *)
(*   commands/query.py, _paginate_rows_by_height, run one loop iteration   *)
(*   per step, followed by the striped drawing loop of render_sc_images.   *)
(*                                                                         *)
(* Strings of the program are modelled as sequences of one-character       *)
(* strings, so that trimming, matching and formatting are computed.        *)
(***************************************************************************)
EXTENDS Integers, Sequences, FiniteSets, TLC

VARIABLES
    \* ---- _paginate_rows_by_height / render_sc_images (query.py) ----
    rows,             \* the input row list; a row is [id, row_height]
    max_canvas_h,     \* keyword arguments of _paginate_rows_by_height
    header_h,
    table_header_h,
    table_padding_h,
    max_data_h,       \* local: the per-page data budget
    pages,            \* local: list of (start_idx, rows) tuples
    cur,              \* local: rows of the page being filled
    cur_h,            \* local: summed height of cur
    start_idx,        \* local: global index of the first row of cur
    global_idx,       \* local: number of rows consumed so far
    it,               \* position of the `for r in rows` iterator (1-based)
    drawn,            \* render_sc_images: the rows drawn, page by page, with bg
    pag_pc            \* "call" | "loop" | "done" | "rendered"

pagVars == <<rows, max_canvas_h, header_h, table_header_h, table_padding_h,
             max_data_h, pages, cur, cur_h, start_idx, global_idx, it,
             drawn, pag_pc>>

VARIABLES
    \* ---- normalize_month_arg, both copies (douchong.py, query.py) ----
    raw,              \* the argument string
    month_douchong,   \* result of douchong.normalize_month_arg(raw)
    month_query,      \* result of query.normalize_month_arg(raw)
    mon_pc,           \* "idle" | "input" | "douchong" | "both"
    \* ---- format_count (douchong.py) ----
    count_v,          \* the argument v
    count_out,        \* the returned string
    fmt_pc            \* "idle" | "input" | "returned"

VARIABLES
    \* ---- render_table_image, render_liushui_card (douchong.py, query.py),
    \*      render_live_sessions_image (query.py) ----
    upstream,         \* the records as fetched (kept for reference)
    data_list,        \* the list render_table_image mutates and sorts
    table_cells,      \* render_table_image: the cell texts drawn, row by row
    sessions,         \* the argument of render_live_sessions_image
    session_cells,    \* render_live_sessions_image: the cell texts drawn
    card,             \* render_liushui_card: the figures drawn
    tbl_pc            \* "idle" | "stats" | "sessions" | "table" | "card"
                      \* | "live" | "raised"

tblVars == <<upstream, data_list, table_cells, sessions, session_cells, card,
             tbl_pc>>

VARIABLES
    \* ---- the command handlers (douchong.py 271-381, query.py 750-837) ----
    cmd,              \* the command received
    arg,              \* its argument text
    month_code,       \* local of the handler
    anchor_kw,        \* local of the query handlers
    located,          \* query handlers: the base _locate_room_by_anchor chose
    vr_has_data,      \* brawl handler: whether vr_list is non-empty
    fetches,          \* the upstream requests issued, in order
    results,          \* the outcome of each, "pending" while in flight
    reply,            \* the messages sent to the user, in order
    h_pc              \* the handler's position

hdlVars == <<cmd, arg, month_code, anchor_kw, located, vr_has_data, fetches,
             results, reply, h_pc>>

monVars == <<raw, month_douchong, month_query, mon_pc>>

fmtVars == <<count_v, count_out, fmt_pc>>

VARIABLES
    \* ---- render_sc_images, the sort and the row list (query.py 453-482) ----
    sc_list,          \* the entries as fetched
    sc_sorted,        \* local sc_sorted
    sc_rows,          \* local rows
    sc_pc

scVars == <<sc_list, sc_sorted, sc_rows, sc_pc>>

VARIABLES
    \* ---- text layout (toolkit.py 36-133, 237-256; live_list.py 64-89) ----
    txt,              \* the text argument
    font,             \* _text_length: the font argument
    max_px,           \* _limit_text_by_px: the pixel budget
    avail,            \* the measurement methods that do not raise
    limited,          \* _limit_text_by_px(txt)
    relimited,        \* _limit_text_by_px(limited)
    runs,             \* list(_split_runs_by_emoji(txt))
    tl_tried,         \* _text_length: the methods called so far
    tl_out,           \* _text_length: the value returned
    txt_pc

txtVars == <<txt, font, max_px, avail, limited, relimited, runs, tl_tried,
             tl_out, txt_pc>>

VARIABLES
    \* ---- duration labels (douchong.py 80-90, query.py 660-670) ----
    dur_in,           \* the argument
    dur_out,          \* the value returned
    dur_pc

durVars == <<dur_in, dur_out, dur_pc>>

VARIABLES
    \* ---- render_live_sessions_image, the time columns (query.py 175-218) ----
    st_sess,          \* one element s of sessions
    st_now,           \* local now
    st_row,           \* the start, end and duration entries of the row dict
    st_pc

stVars == <<st_sess, st_now, st_row, st_pc>>

VARIABLES
    \* ---- render_sc_images, the message cell (query.py 467-471) ----
    msg_item,         \* one element item of sc_sorted (its message field)
    msg_clean,        \* local msg_clean
    msg_lines,        \* local msg_lines
    msg_row_height,   \* local row_height
    msg_pc

msgVars == <<msg_item, msg_clean, msg_lines, msg_row_height, msg_pc>>

VARIABLES
    \* ---- PicGenerator (toolkit.py 135-342) ----
    pic,              \* the fields of one PicGenerator
    pic_call,         \* the last method call: its arguments, the fields
                      \* before it and the texts it drew
    pic_ops           \* the number of method calls made

picVars == <<pic, pic_call, pic_ops>>

VARIABLES
    \* ---- render_sc_images, the page loop (query.py 494-566) ----
    sc_images         \* out_b64: the page images appended so far

rndVars == <<sc_images>>

vars == <<pagVars, monVars, fmtVars, tblVars, hdlVars, scVars, txtVars,
          durVars, stVars, msgVars, picVars, rndVars>>

\* What the steps of one part leave alone: the state of the other parts.
PagFrame == UNCHANGED <<monVars, fmtVars, tblVars, hdlVars, scVars,
                        txtVars, durVars, stVars, msgVars, picVars,
                        rndVars>>

MonFrame == UNCHANGED <<pagVars, fmtVars, tblVars, hdlVars, scVars,
                        txtVars, durVars, stVars, msgVars, picVars,
                        rndVars>>

FmtFrame == UNCHANGED <<pagVars, monVars, tblVars, hdlVars, scVars,
                        txtVars, durVars, stVars, msgVars, picVars,
                        rndVars>>

TblFrame == UNCHANGED <<pagVars, monVars, fmtVars, hdlVars, scVars,
                        txtVars, durVars, stVars, msgVars, picVars,
                        rndVars>>

HdlFrame == UNCHANGED <<pagVars, monVars, fmtVars, tblVars, scVars,
                        txtVars, durVars, stVars, msgVars, picVars,
                        rndVars>>

ScFrame == UNCHANGED <<pagVars, monVars, fmtVars, tblVars, hdlVars,
                       txtVars, durVars, stVars, msgVars, picVars, rndVars>>

TxtFrame == UNCHANGED <<pagVars, monVars, fmtVars, tblVars, hdlVars,
                        scVars, durVars, stVars, msgVars, picVars, rndVars>>

DurFrame == UNCHANGED <<pagVars, monVars, fmtVars, tblVars, hdlVars,
                        scVars, txtVars, stVars, msgVars, picVars, rndVars>>

StFrame == UNCHANGED <<pagVars, monVars, fmtVars, tblVars, hdlVars, scVars,
                       txtVars, durVars, msgVars, picVars, rndVars>>

MsgFrame == UNCHANGED <<pagVars, monVars, fmtVars, tblVars, hdlVars,
                        scVars, txtVars, durVars, stVars, picVars, rndVars>>

PicFrame == UNCHANGED <<pagVars, monVars, fmtVars, tblVars, hdlVars,
                        scVars, txtVars, durVars, stVars, msgVars, rndVars>>

RndFrame == UNCHANGED <<pagVars, monVars, fmtVars, tblVars, hdlVars,
                        scVars, txtVars, durVars, stVars, msgVars, picVars>>

-----------------------------------------------------------------------------
(* Bounds of the model.                                                    *)

MaxRows == 3
MaxRowH == 3
MaxCanvasH == 4
MaxPartH == 1
MaxRawLen == 7
MaxCount == 120
MaxStrLen == 2
MaxTableRows == 2

MaxSortRows == 3

MaxScRows == 3

MaxTextLen == 3

PxStep == 8

MaxPxSteps == 12

MaxMsgLen == 45

MaxPicOps == 4

MaxRenderRows == 2

-----------------------------------------------------------------------------
(* Generic helpers.                                                        *)

Range(s) == {s[i] : i \in 1..Len(s)}

RECURSIVE SumSeq(_)
SumSeq(s) == IF s = <<>> THEN 0 ELSE s[1] + SumSeq(Tail(s))

RECURSIVE Flatten(_)
Flatten(ss) == IF ss = <<>> THEN <<>> ELSE ss[1] \o Flatten(Tail(ss))

-----------------------------------------------------------------------------
(* Python values and strings.  A str is a sequence of one-character        *)
(* strings; "U+FF10" .. "U+FF19" stand for the single code points          *)
(* FULLWIDTH DIGIT ZERO .. NINE (Unicode category Nd).                     *)
(* An Optional[...] result is None (the empty tuple) or Some(x).           *)

None == <<>>

Some(x) == <<x>>

AsciiDigits == {"0", "1", "2", "3", "4", "5", "6", "7", "8", "9"}

WideDigits10 == <<"U+FF10", "U+FF11", "U+FF12", "U+FF13", "U+FF14",
                  "U+FF15", "U+FF16", "U+FF17", "U+FF18", "U+FF19">>

WideDigits == {WideDigits10[i] : i \in 1..10}

Digits10 == <<"0", "1", "2", "3", "4", "5", "6", "7", "8", "9">>

\* str.isspace of the characters the model uses
IsSpace(c) == c \in {" ", "\t", "\n"}

\* the regex class \d of a str pattern: every Unicode decimal digit
IsDecimal(c) == c \in AsciiDigits \cup WideDigits

\* the digit value int() gives a decimal digit
DigitValue(c) ==
    CHOOSE d \in 0..9 : Digits10[d + 1] = c \/ WideDigits10[d + 1] = c

RECURSIVE LStrip(_)
LStrip(s) == IF s # <<>> /\ IsSpace(s[1]) THEN LStrip(Tail(s)) ELSE s

RECURSIVE RStrip(_)
RStrip(s) ==
    IF s # <<>> /\ IsSpace(s[Len(s)])
    THEN RStrip(SubSeq(s, 1, Len(s) - 1))
    ELSE s

\* str.strip()
Strip(s) == RStrip(LStrip(s))

\* int(s) of a string of decimal digits
RECURSIVE DigitsToInt(_)
DigitsToInt(s) ==
    IF s = <<>> THEN 0
    ELSE 10 * DigitsToInt(SubSeq(s, 1, Len(s) - 1)) + DigitValue(s[Len(s)])

\* str(n) of an int
RECURSIVE NatToStr(_)
NatToStr(n) ==
    IF n < 10 THEN <<Digits10[n + 1]>>
    ELSE Append(NatToStr(n \div 10), Digits10[(n % 10) + 1])

IntToStr(n) == IF n < 0 THEN <<"-">> \o NatToStr(0 - n) ELSE NatToStr(n)

\* All strings over an alphabet up to a length.
StringsUpTo(alphabet, n) == UNION { [1..k -> alphabet] : k \in 0..n }

-----------------------------------------------------------------------------
(* normalize_month_arg: douchong.py 43-44, 54-77 and query.py 37-54.       *)

\* re.fullmatch(r"(\d{4})(\d{2})", text): the groups, or None
MatchMonthRe1(text) ==
    IF Len(text) = 6 /\ \A i \in 1..6 : IsDecimal(text[i])
    THEN Some(<<SubSeq(text, 1, 4), SubSeq(text, 5, 6)>>)
    ELSE None

\* re.fullmatch(r"(\d{4})-(\d{2})", text): the groups, or None
MatchMonthRe2(text) ==
    IF /\ Len(text) = 7
       /\ text[5] = "-"
       /\ \A i \in {1, 2, 3, 4, 6, 7} : IsDecimal(text[i])
    THEN Some(<<SubSeq(text, 1, 4), SubSeq(text, 6, 7)>>)
    ELSE None

\* douchong.py 54-77
normalize_month_arg_douchong(r) ==
    IF r = <<>> THEN None
    ELSE LET text == Strip(r)
             m1 == MatchMonthRe1(text)
             m2 == MatchMonthRe2(text)
         IN IF m1 = None /\ m2 = None THEN None
            ELSE LET g == IF m1 # None THEN m1[1] ELSE m2[1]
                     yyyy == g[1]
                     mm == g[2]
                     mm_i == DigitsToInt(mm)
                 IN IF 1 <= mm_i /\ mm_i <= 12
                    THEN Some(yyyy \o mm)
                    ELSE None

\* query.py 37-54
normalize_month_arg_query(r) ==
    IF r = <<>> THEN None
    ELSE LET text == Strip(r)
             m1 == MatchMonthRe1(text)
             m2 == MatchMonthRe2(text)
         IN IF m1 # None
            THEN IF 1 <= DigitsToInt(m1[1][2]) /\ DigitsToInt(m1[1][2]) <= 12
                 THEN Some(m1[1][1] \o m1[1][2]) ELSE None
            ELSE IF m2 # None
            THEN IF 1 <= DigitsToInt(m2[1][2]) /\ DigitsToInt(m2[1][2]) <= 12
                 THEN Some(m2[1][1] \o m2[1][2]) ELSE None
            ELSE None

\* The argument strings tried: every string over MonthChars up to
\* MaxRawLen characters, and the four strings the documentation names.
MonthChars == {"0", "1", "3", "-", " ", "U+FF11"}

MonthExamples ==
    { <<"2", "0", "2", "5", "0", "9">>,
      <<"2", "0", "2", "5", "-", "0", "9">>,
      <<"2", "0", "2", "5", "1", "3">>,
      <<"a", "b", "c", "d", "e", "f">> }

CallNormalizeDouchong ==
    /\ MonFrame
    /\ mon_pc = "input"
    /\ month_douchong' = normalize_month_arg_douchong(raw)
    /\ mon_pc' = "douchong"
    /\ UNCHANGED <<raw, month_query>>

CallNormalizeQuery ==
    /\ MonFrame
    /\ mon_pc = "douchong"
    /\ month_query' = normalize_month_arg_query(raw)
    /\ mon_pc' = "both"
    /\ UNCHANGED <<raw, month_douchong>>

MonInit ==
    /\ raw \in StringsUpTo(MonthChars, MaxRawLen) \cup MonthExamples
    /\ month_douchong = None
    /\ month_query = None
    /\ mon_pc = "input"

MonIdle ==
    /\ raw = <<>>
    /\ month_douchong = None
    /\ month_query = None
    /\ mon_pc = "idle"

MonNext ==
    \/ CallNormalizeDouchong
    \/ CallNormalizeQuery

-----------------------------------------------------------------------------
(* format_count: douchong.py 102-113.                                      *)
(* A JSON value is [t, n, s]: t = "none" (null or a missing key read with  *)
(* .get), "int" with value n, or "str" with text s.                        *)

PyNone == [t |-> "none", n |-> 0, s |-> <<>>]

PyInt(k) == [t |-> "int", n |-> k, s |-> <<>>]

PyStr(x) == [t |-> "str", n |-> 0, s |-> x]

\* A float, held in tenths: PyFloat(15) is 1.5.
PyFloat(x) == [t |-> "float", n |-> x, s |-> <<>>]

\* A key the dict does not hold.
PyAbsent == [t |-> "absent", n |-> 0, s |-> <<>>]

\* d.get(key, default) and d.get(key)
Get(d, key, default) == IF d[key].t = "absent" THEN default ELSE d[key]

GetOrNone(d, key) == Get(d, key, PyNone)

\* Python truthiness of a value, for `x or 0`
IsTruthy(val) ==
    CASE val.t \in {"int", "float"} -> val.n # 0
      [] val.t = "str" -> val.s # <<>>
      [] OTHER -> FALSE

OrZero(val) == IF IsTruthy(val) THEN val ELSE PyInt(0)

\* Whether int(v) succeeds on a str: optional sign, then decimal digits,
\* surrounding whitespace ignored.
IntLiteralBody(x) ==
    IF x # <<>> /\ x[1] \in {"-", "+"} THEN Tail(x) ELSE x

IsIntLiteral(x) ==
    LET b == IntLiteralBody(Strip(x))
    IN b # <<>> /\ \A i \in 1..Len(b) : IsDecimal(b[i])

\* int(v): Some(k), or None when it raises
ToInt(val) ==
    CASE val.t = "int" -> Some(val.n)
      [] val.t = "str" ->
            IF IsIntLiteral(val.s)
            THEN LET x == Strip(val.s)
                     k == DigitsToInt(IntLiteralBody(x))
                 IN Some(IF x[1] = "-" THEN 0 - k ELSE k)
            ELSE None
      [] OTHER -> None

format_count_falsy(val) ==
    IF val.t = "none" \/ (val.t = "int" /\ val.n = 0) THEN <<"-">>
    ELSE IF ToInt(val) # None THEN IntToStr(ToInt(val)[1]) ELSE <<"-">>

format_count(val) ==
    IF val.t = "none" THEN <<"-">>
    ELSE IF ToInt(val) # None THEN IntToStr(ToInt(val)[1]) ELSE <<"-">>

CountChars == {"0", "7", "-", "x"}

CountValues ==
    {PyNone} \cup {PyInt(k) : k \in (0 - MaxCount)..MaxCount}
             \cup {PyStr(x) : x \in StringsUpTo(CountChars, MaxStrLen)}

CallFormatCount ==
    /\ FmtFrame
    /\ fmt_pc = "input"
    /\ count_out' = format_count(count_v)
    /\ fmt_pc' = "returned"
    /\ UNCHANGED count_v

FmtInit ==
    /\ count_v \in CountValues
    /\ count_out = <<>>
    /\ fmt_pc = "input"

FmtIdle ==
    /\ count_v = PyNone
    /\ count_out = <<>>
    /\ fmt_pc = "idle"

FmtNext == CallFormatCount

-----------------------------------------------------------------------------
(* Money and cell formatting: douchong.py 116-127, 244-248.                *)
(* Amounts are held in tenths, so f"{x:.1f}" is exact.                     *)

\* float(v): Some(tenths), or None when it raises
FloatOf(val) ==
    CASE val.t = "float" -> Some(val.n)
      [] val.t = "int" -> Some(10 * val.n)
      [] val.t = "str" -> IF ToInt(val) # None THEN Some(10 * ToInt(val)[1])
                                               ELSE None
      [] OTHER -> None

\* _to_float(v, default=0.0): douchong.py 116-120
ToFloat(val) == IF FloatOf(val) # None THEN FloatOf(val)[1] ELSE 0

\* f"{x:.1f}"
Fmt1(x) ==
    LET a == IF x < 0 THEN 0 - x ELSE x
    IN (IF x < 0 THEN <<"-">> ELSE <<>>)
       \o NatToStr(a \div 10) \o <<".">> \o NatToStr(a % 10)

\* str(v)
PyToStr(val) ==
    CASE val.t = "none" -> <<"N", "o", "n", "e">>
      [] val.t = "int" -> IntToStr(val.n)
      [] val.t = "float" -> Fmt1(val.n)
      [] OTHER -> val.s

-----------------------------------------------------------------------------
(* render_table_image: douchong.py 148-265.                                *)
(* The columns modelled are the name, the count columns and the money      *)
(* columns; the fan, status, duration and blind-box-profit columns read    *)
(* other fields of the record.                                             *)

CountFields == {"effective_days", "guard_1", "guard_2", "guard_3",
                "fans_count", "blind_box_count"}

MoneyFields == {"gift", "super_chat", "guard", "total"}

\* lines 151-154: gift + sc + guard
ComputedTotal_trusts_upstream(d) ==
    IF d.total.t # "absent" THEN ToFloat(d.total)
    ELSE ToFloat(Get(d, "gift", PyInt(0)))
         + ToFloat(Get(d, "super_chat", PyInt(0)))
         + ToFloat(Get(d, "guard", PyInt(0)))

ComputedTotal(d) ==
    ToFloat(Get(d, "gift", PyInt(0)))
    + ToFloat(Get(d, "super_chat", PyInt(0)))
    + ToFloat(Get(d, "guard", PyInt(0)))

\* line 154: d["total"] = gift + sc + guard
WithTotal(d) == [d EXCEPT !.total = PyFloat(ComputedTotal(d))]

\* line 159: key=lambda x: _to_float(x.get("total", 0))
SortKey(d) == ToFloat(Get(d, "total", PyInt(0)))

\* list.sort(key=..., reverse=True): stable, descending.  Insert x behind
\* every element whose key is not smaller.
RECURSIVE InsertDesc_before_ties(_, _)
InsertDesc_before_ties(sorted, x) ==
    IF sorted = <<>> THEN <<x>>
    ELSE IF SortKey(sorted[1]) > SortKey(x)
         THEN <<sorted[1]>> \o InsertDesc_before_ties(Tail(sorted), x)
         ELSE <<x>> \o sorted

RECURSIVE InsertDesc(_, _)
InsertDesc(sorted, x) ==
    IF sorted = <<>> THEN <<x>>
    ELSE IF SortKey(sorted[1]) >= SortKey(x)
         THEN <<sorted[1]>> \o InsertDesc(Tail(sorted), x)
         ELSE <<x>> \o sorted

RECURSIVE SortDescStable(_)
SortDescStable(list) ==
    IF list = <<>> THEN <<>>
    ELSE InsertDesc(SortDescStable(SubSeq(list, 1, Len(list) - 1)),
                    list[Len(list)])

\* lines 231-249: the cells of one row
TableRowCells(d, idx) ==
    [ anchor_name     |-> PyToStr(Get(d, "anchor_name", PyStr(<<>>))),
      effective_days  |-> PyToStr(Get(d, "effective_days", PyStr(<<>>))),
      guard_1         |-> format_count(GetOrNone(d, "guard_1")),
      guard_2         |-> format_count(GetOrNone(d, "guard_2")),
      guard_3         |-> format_count(GetOrNone(d, "guard_3")),
      fans_count      |-> format_count(GetOrNone(d, "fans_count")),
      blind_box_count |-> format_count(GetOrNone(d, "blind_box_count")),
      gift            |-> Fmt1(ToFloat(Get(d, "gift", PyInt(0)))),
      super_chat      |-> Fmt1(ToFloat(Get(d, "super_chat", PyInt(0)))),
      guard           |-> Fmt1(ToFloat(Get(d, "guard", PyInt(0)))),
      total           |-> Fmt1(ToFloat(Get(d, "total", PyInt(0)))),
      bg              |-> IF idx % 2 = 0 THEN "LIGHTGRAY" ELSE "WHITE" ]

\* The handlers call render_table_image only with a non-empty list
\* (douchong.py 294, 346).
RenderTableImage ==
    /\ TblFrame
    /\ tbl_pc = "stats"
    /\ data_list # <<>>
    /\ LET totalled == [i \in 1..Len(data_list) |-> WithTotal(data_list[i])]
           sorted == SortDescStable(totalled)
       IN /\ data_list' = sorted
          /\ table_cells' = [i \in 1..Len(sorted) |->
                                TableRowCells(sorted[i], i - 1)]
    /\ tbl_pc' = "table"
    /\ UNCHANGED <<upstream, sessions, session_cells, card>>

-----------------------------------------------------------------------------
(* render_liushui_card: query.py 673-747, called from 821-835 with the     *)
(* first record whose name holds the keyword.                              *)

\* float(x or 0): Some(tenths), or None when float() raises
FloatOrZero(val) == FloatOf(OrZero(val))

NoCard == [gift |-> <<>>, guard |-> <<>>, sc |-> <<>>, total |-> <<>>,
           effective_days |-> <<>>, of |-> <<>>]

\* lines 685-688 and 724-739
LiushuiCard(match) ==
    LET gift == FloatOrZero(Get(match, "gift", PyInt(0)))[1]
        guard == FloatOrZero(Get(match, "guard", PyInt(0)))[1]
        sc == FloatOrZero(Get(match, "super_chat", PyInt(0)))[1]
        total == gift + guard + sc
    IN [ gift |-> Fmt1(gift), guard |-> Fmt1(guard), sc |-> Fmt1(sc),
         total |-> Fmt1(total),
         effective_days |-> PyToStr(Get(match, "effective_days", PyInt(0))),
         of |-> match.anchor_name.s ]

LiushuiCardRaises(match) ==
    \E f \in {"gift", "guard", "super_chat"} :
        FloatOrZero(Get(match, f, PyInt(0))) = None

RenderLiushuiCard ==
    /\ TblFrame
    /\ tbl_pc = "stats"
    /\ \E i \in 1..Len(data_list) :
          LET match == data_list[i]
          IN IF LiushuiCardRaises(match)
             THEN card' = NoCard /\ tbl_pc' = "raised"
             ELSE card' = LiushuiCard(match) /\ tbl_pc' = "card"
    /\ UNCHANGED <<upstream, data_list, table_cells, sessions, session_cells>>

-----------------------------------------------------------------------------
(* render_live_sessions_image: query.py 154-342.                           *)
(* The columns modelled are the danmaku count, the blind-box count and the *)
(* money columns; the time and concurrency columns read other fields.      *)

\* int(x or 0): Some(k), or None when int() raises
IntOrZero(val) == ToInt(OrZero(val))

\* lines 178-181: danmu = int(s.get("danmaku_count") or 0), 0 on an error
Danmu(sess) ==
    IF IntOrZero(GetOrNone(sess, "danmaku_count")) # None
    THEN IntOrZero(GetOrNone(sess, "danmaku_count"))[1] ELSE 0

\* lines 193-198 raise when a value cannot be converted
SessionRaises(sess) ==
    \/ IntOrZero(GetOrNone(sess, "blind_box_count")) = None
    \/ \E f \in {"gift", "guard", "super_chat"} :
          FloatOrZero(GetOrNone(sess, f)) = None

\* lines 193-230 and 288-302: the cells of one session row
SessionRowCells(sess, idx) ==
    LET gift == FloatOrZero(GetOrNone(sess, "gift"))[1]
        guard == FloatOrZero(GetOrNone(sess, "guard"))[1]
        sc == FloatOrZero(GetOrNone(sess, "super_chat"))[1]
    IN [ danmu |-> IntToStr(Danmu(sess)),
         blind_box_count |->
             IntToStr(IntOrZero(GetOrNone(sess, "blind_box_count"))[1]),
         gift |-> Fmt1(gift), guard |-> Fmt1(guard), sc |-> Fmt1(sc),
         sum |-> Fmt1(gift + guard + sc),
         bg |-> IF idx % 2 = 0 THEN "LIGHTGRAY" ELSE "WHITE" ]

RenderLiveSessionsImage ==
    /\ TblFrame
    /\ tbl_pc = "sessions"
    /\ IF \E i \in 1..Len(sessions) : SessionRaises(sessions[i])
       THEN session_cells' = <<>> /\ tbl_pc' = "raised"
       ELSE /\ session_cells' = [i \in 1..Len(sessions) |->
                                    SessionRowCells(sessions[i], i - 1)]
            /\ tbl_pc' = "live"
    /\ UNCHANGED <<upstream, data_list, table_cells, sessions, card>>

-----------------------------------------------------------------------------
(* The upstream records tried.                                             *)

StatRecord(name, gift, sc, guard, total, counts) ==
    [ anchor_name |-> PyStr(name), gift |-> gift, super_chat |-> sc,
      guard |-> guard, total |-> total,
      effective_days |-> counts["effective_days"],
      guard_1 |-> counts["guard_1"], guard_2 |-> counts["guard_2"],
      guard_3 |-> counts["guard_3"], fans_count |-> counts["fans_count"],
      blind_box_count |-> counts["blind_box_count"] ]

CountsAll(val) == [f \in CountFields |-> val]

\* Records whose money fields vary: a component may be missing, null or
\* not a number, and the upstream total may disagree with the components.
MoneyRecords(name) ==
    { StatRecord(name, g, sc, gu, tot, CountsAll(PyInt(1))) :
        g \in {PyAbsent, PyStr(<<"x">>), PyFloat(0), PyFloat(15)},
        sc \in {PyNone, PyFloat(0), PyFloat(25)},
        gu \in {PyFloat(0), PyInt(4)},
        tot \in {PyAbsent, PyFloat(990)} }

\* Records whose count fields vary: each is missing, null, 0 or 3.
CountRecords(name) ==
    { StatRecord(name, PyFloat(15), PyFloat(0), PyFloat(0), PyAbsent, counts) :
        counts \in [CountFields ->
                       {PyAbsent, PyNone, PyInt(0), PyInt(3)}] }

\* Lists of 1..n records named "1", "2", ... by position.
StatLists(n) ==
    UNION { { l \in [1..k -> UNION {MoneyRecords(NatToStr(j)) : j \in 1..k}] :
                \A j \in 1..k : l[j].anchor_name.s = NatToStr(j) } :
            k \in 1..n }

\* Records that differ in their total only: gift is 500.0 or 1200.0.
SortRecords(name) ==
    { StatRecord(name, g, PyFloat(0), PyFloat(0), PyAbsent,
                 CountsAll(PyInt(1))) :
        g \in {PyFloat(5000), PyFloat(12000)} }

\* Every list of n such records, named "1", "2", ... by position.
SortLists(n) ==
    { l \in [1..n -> UNION {SortRecords(NatToStr(j)) : j \in 1..n}] :
        \A j \in 1..n : l[j].anchor_name.s = NatToStr(j) }

SessionRecords ==
    { [ blind_box_count |-> b, danmaku_count |-> dm, gift |-> g,
        guard |-> PyFloat(0), super_chat |-> PyFloat(25) ] :
        b \in {PyAbsent, PyNone, PyInt(0), PyInt(3)},
        dm \in {PyAbsent, PyInt(0), PyInt(5)},
        g \in {PyAbsent, PyFloat(15), PyStr(<<"x">>)} }

SessionLists(n) == UNION { [1..k -> SessionRecords] : k \in 0..n }

TblInit ==
    /\ \/ /\ tbl_pc = "stats"
          /\ upstream \in StatLists(MaxTableRows)
                          \cup { <<d>> : d \in CountRecords(<<"1">>) }
                          \cup SortLists(MaxSortRows)
          /\ sessions = <<>>
       \/ /\ tbl_pc = "sessions"
          /\ upstream = <<>>
          /\ sessions \in SessionLists(MaxTableRows)
    /\ data_list = upstream
    /\ table_cells = <<>>
    /\ session_cells = <<>>
    /\ card = NoCard

TblIdle ==
    /\ tbl_pc = "idle"
    /\ upstream = <<>>
    /\ data_list = <<>>
    /\ table_cells = <<>>
    /\ sessions = <<>>
    /\ session_cells = <<>>
    /\ card = NoCard

TblNext ==
    \/ RenderTableImage
    \/ RenderLiushuiCard
    \/ RenderLiveSessionsImage

-----------------------------------------------------------------------------
(* Argument parsing of the query commands: query.py 58-75.                 *)

\* re.split(r"\s+", raw) of a stripped, non-empty raw
RECURSIVE SplitFrom(_, _, _)
SplitFrom(s, tok, acc) ==
    IF s = <<>> THEN Append(acc, tok)
    ELSE IF IsSpace(s[1]) THEN SplitFrom(LStrip(s), <<>>, Append(acc, tok))
    ELSE SplitFrom(Tail(s), Append(tok, s[1]), acc)

SplitWs(s) == SplitFrom(s, <<>>, <<>>)

\* " ".join(parts)
RECURSIVE JoinSp(_)
JoinSp(parts) ==
    IF parts = <<>> THEN <<>>
    ELSE IF Len(parts) = 1 THEN parts[1]
    ELSE parts[1] \o <<" ">> \o JoinSp(Tail(parts))

\* time.strftime("%Y%m", time.localtime()) at the time of the request
current_month_code == <<"2", "0", "2", "6", "1", "1">>

\* _parse_anchor_and_month(arg_str): <<anchor_kw, month_code>>
ParseAnchorAndMonth(arg_str) ==
    LET r == Strip(arg_str)
    IN IF r = <<>> THEN <<<<>>, current_month_code>>
       ELSE LET parts == SplitWs(r)
                maybe_month == normalize_month_arg_query(parts[Len(parts)])
            IN IF maybe_month # None
               THEN <<Strip(JoinSp(SubSeq(parts, 1, Len(parts) - 1))),
                      maybe_month[1]>>
               ELSE <<r, current_month_code>>

-----------------------------------------------------------------------------
(* The command handlers.  An upstream request is an external event: its    *)
(* outcome is chosen freely among the outcomes the code distinguishes.     *)

DouchongCmds == {"VR_douchong", "PSP_douchong"}

BrawlCmds == {"brawl_douchong"}

LocateCmds == {"cha_zhibo", "cha_SC"}

LiushuiCmds == {"cha_liushui"}

\* live_list.py 19-32: VR开播, PSP开播
LiveCmds == {"VR_kaibo", "PSP_kaibo"}

Commands ==
    DouchongCmds \cup BrawlCmds \cup LocateCmds \cup LiushuiCmds
        \cup LiveCmds

\* douchong.py 362, 373 and live_list.py 211, 221: the api base each
\* command passes
BaseOf(c) == IF c \in {"VR_douchong", "VR_kaibo"} THEN "VR" ELSE "PSP"

\* query.py 107, 651: bases = [cfg.vr_gift_api_base, cfg.psp_gift_api_base]
Bases == <<"VR", "PSP">>

Request(base, path, month) == [base |-> base, path |-> path, month |-> month]

Text(msg) == [kind |-> "text", msg |-> msg]

Image == [kind |-> "image", msg |-> ""]

Forward == [kind |-> "forward", msg |-> ""]

\* Outcomes of GET .../by_month in fetch_month_data (douchong.py 133-142):
\* "error" is a network error, a timeout, an HTTP error status or a body
\* that is not JSON; "bad_shape" is JSON that is not a list.
FetchOutcomes == {"error", "bad_shape", "empty", "data"}

\* One request issued and answered: the request is appended to fetches and
\* its outcome to results.
Fetched(req, outcome) ==
    /\ fetches' = Append(fetches, req)
    /\ results' = Append(results, outcome)

\* douchong.py 272-285 and 310-322: the month argument of the three
\* douchong commands; None when the handler returns the format message
DouchongMonth(a) ==
    LET r == Strip(a)
    IN IF r # <<>> THEN normalize_month_arg_douchong(r)
                   ELSE Some(current_month_code)

\* _handle_douchong, lines 272-287
DouchongStart ==
    /\ HdlFrame
    /\ h_pc = "start"
    /\ cmd \in DouchongCmds
    /\ IF DouchongMonth(arg) = None
       THEN /\ reply' = Append(reply, Text("month_format"))
            /\ h_pc' = "done"
            /\ UNCHANGED month_code
       ELSE /\ month_code' = DouchongMonth(arg)[1]
            /\ h_pc' = "fetch"
            /\ UNCHANGED reply
    /\ UNCHANGED <<cmd, arg, anchor_kw, located, vr_has_data, fetches,
                   results>>

\* fetch_month_data, lines 139-141: a payload that is not a list raises
\* ValueError
MonthDataRaises(outcome) == outcome \in {"error", "bad_shape"}

\* _handle_douchong, lines 289-295
DouchongFetch ==
    /\ HdlFrame
    /\ h_pc = "fetch"
    /\ cmd \in DouchongCmds
    /\ \E outcome \in FetchOutcomes :
          /\ Fetched(Request(BaseOf(cmd), "by_month", month_code), outcome)
          /\ CASE MonthDataRaises(outcome) ->
                  reply' = Append(reply, Text("fetch_failed")) /\ h_pc' = "done"
               [] outcome # "data" ->
                  reply' = Append(reply, Text("no_data")) /\ h_pc' = "done"
               [] OTHER -> reply' = reply /\ h_pc' = "render"
    /\ UNCHANGED <<cmd, arg, month_code, anchor_kw, located, vr_has_data>>

\* _handle_douchong, lines 297-303
DouchongRender ==
    /\ HdlFrame
    /\ h_pc = "render"
    /\ cmd \in DouchongCmds
    /\ \E raised \in BOOLEAN :
          reply' = Append(reply, IF raised THEN Text("render_failed")
                                           ELSE Image)
    /\ h_pc' = "done"
    /\ UNCHANGED <<cmd, arg, month_code, anchor_kw, located, vr_has_data,
                   fetches, results>>

\* _handle_douchong_brawl, lines 310-325
BrawlStart ==
    /\ HdlFrame
    /\ h_pc = "start"
    /\ cmd \in BrawlCmds
    /\ IF DouchongMonth(arg) = None
       THEN /\ reply' = Append(reply, Text("month_format_brawl"))
            /\ h_pc' = "done"
            /\ UNCHANGED month_code
       ELSE /\ month_code' = DouchongMonth(arg)[1]
            /\ h_pc' = "fetch"
            /\ UNCHANGED reply
    /\ UNCHANGED <<cmd, arg, anchor_kw, located, vr_has_data, fetches,
                   results>>

\* _handle_douchong_brawl, lines 327-330
BrawlFetchVR ==
    /\ HdlFrame
    /\ h_pc = "fetch"
    /\ cmd \in BrawlCmds
    /\ \E outcome \in FetchOutcomes :
          /\ Fetched(Request("VR", "by_month", month_code), outcome)
          /\ IF MonthDataRaises(outcome)
             THEN /\ reply' = Append(reply, Text("vr_failed"))
                  /\ h_pc' = "done"
                  /\ UNCHANGED vr_has_data
             ELSE /\ vr_has_data' = (outcome = "data")
                  /\ h_pc' = "fetch_psp"
                  /\ UNCHANGED reply
    /\ UNCHANGED <<cmd, arg, month_code, anchor_kw, located>>

\* after the VR list is in, whether the PSP request's failure ends the
\* request: lines 332-335
BrawlPspFailureEnds(outcome) == MonthDataRaises(outcome)

\* _handle_douchong_brawl, lines 332-347
BrawlFetchPSP ==
    /\ HdlFrame
    /\ h_pc = "fetch_psp"
    /\ cmd \in BrawlCmds
    /\ \E outcome \in FetchOutcomes :
          /\ Fetched(Request("PSP", "by_month", month_code), outcome)
          /\ CASE BrawlPspFailureEnds(outcome) ->
                  reply' = Append(reply, Text("psp_failed")) /\ h_pc' = "done"
               [] outcome # "data" /\ ~vr_has_data ->
                  reply' = Append(reply, Text("no_data")) /\ h_pc' = "done"
               [] OTHER -> reply' = reply /\ h_pc' = "render"
    /\ UNCHANGED <<cmd, arg, month_code, anchor_kw, located, vr_has_data>>

\* _handle_douchong_brawl, lines 349-355
BrawlRender ==
    /\ HdlFrame
    /\ h_pc = "render"
    /\ cmd \in BrawlCmds
    /\ \E raised \in BOOLEAN :
          reply' = Append(reply, IF raised THEN Text("render_failed")
                                           ELSE Image)
    /\ h_pc' = "done"
    /\ UNCHANGED <<cmd, arg, month_code, anchor_kw, located, vr_has_data,
                   fetches, results>>

\* The three query handlers, query.py 752-754, 778-780, 812-814
QueryStart ==
    /\ HdlFrame
    /\ h_pc = "start"
    /\ cmd \in LocateCmds \cup LiushuiCmds
    /\ anchor_kw' = ParseAnchorAndMonth(arg)[1]
    /\ month_code' = ParseAnchorAndMonth(arg)[2]
    /\ IF ParseAnchorAndMonth(arg)[1] = <<>>
       THEN reply' = Append(reply, Text("usage")) /\ h_pc' = "done"
       ELSE /\ reply' = reply
            /\ h_pc' = IF cmd \in LocateCmds THEN "locate_1" ELSE "gather"
    /\ UNCHANGED <<cmd, arg, located, vr_has_data, fetches, results>>

\* Outcomes of one GET <base> in _locate_room_by_anchor (query.py 109-122)
LocateOutcomes == {"error", "bad_shape", "no_match", "match", "match_no_room"}

\* the handler's position before each turn of `for base in bases`
LocatePc == <<"locate_1", "locate_2">>

\* _locate_room_by_anchor, one turn of `for base in bases`, and what the
\* handler does with its result: query.py 758-765, 784-791
LocateStep ==
    /\ HdlFrame
    /\ cmd \in LocateCmds
    /\ \E b \in 1..Len(Bases) :
       /\ h_pc = LocatePc[b]
       /\ \E outcome \in LocateOutcomes :
          /\ Fetched(Request(Bases[b], "root", <<>>), outcome)
          /\ CASE outcome = "match" ->
                     located' = Bases[b] /\ reply' = reply /\ h_pc' = "query"
               [] outcome = "match_no_room" ->
                     /\ located' = Bases[b]
                     /\ reply' = Append(reply, Text("no_room"))
                     /\ h_pc' = "done"
               [] OTHER ->
                     /\ located' = located
                     /\ IF b < Len(Bases)
                        THEN reply' = reply /\ h_pc' = LocatePc[b + 1]
                        ELSE /\ reply' = Append(reply, Text("not_found"))
                             /\ h_pc' = "done"
    /\ UNCHANGED <<cmd, arg, month_code, anchor_kw, vr_has_data>>

\* query.py 767-770 (query_live_sessions) and 793-796 (query_sc_list)
QueryFetch ==
    /\ HdlFrame
    /\ h_pc = "query"
    /\ cmd \in LocateCmds
    /\ \E outcome \in FetchOutcomes :
          /\ Fetched(Request(located,
                             IF cmd = "cha_zhibo" THEN "live_sessions"
                                                  ELSE "sc",
                             month_code),
                     outcome)
          /\ IF outcome = "error"
             THEN reply' = Append(reply, Text("query_failed"))
                  /\ h_pc' = "done"
             ELSE reply' = reply /\ h_pc' = "render"
    /\ UNCHANGED <<cmd, arg, month_code, anchor_kw, located, vr_has_data>>

\* query.py 772-773 and 798-808: the render call is not guarded; an
\* exception of the renderer leaves the handler.  render_sc_images returns
\* one image or several.
QueryRender ==
    /\ HdlFrame
    /\ h_pc = "render"
    /\ cmd \in LocateCmds
    /\ \E raised \in BOOLEAN, several \in BOOLEAN :
          IF raised
          THEN reply' = reply /\ h_pc' = "raised"
          ELSE /\ reply' = Append(reply, IF cmd = "cha_SC" /\ several
                                         THEN Forward ELSE Image)
               /\ h_pc' = "done"
    /\ UNCHANGED <<cmd, arg, month_code, anchor_kw, located, vr_has_data,
                   fetches, results>>

\* fetch_all_data_by_month, query.py 651-653: asyncio.gather starts one
\* _fetch_month_list per base
LiushuiIssue ==
    /\ HdlFrame
    /\ h_pc = "gather"
    /\ cmd \in LiushuiCmds
    /\ fetches' = fetches \o [b \in 1..Len(Bases) |->
                                Request(Bases[b], "by_month", month_code)]
    /\ results' = results \o [b \in 1..Len(Bases) |-> "pending"]
    /\ h_pc' = "gathering"
    /\ UNCHANGED <<cmd, arg, month_code, anchor_kw, located, vr_has_data,
                   reply>>

\* _fetch_month_list, query.py 634-646: one of the requests in flight is
\* answered; the two are answered in either order
LiushuiComplete ==
    /\ HdlFrame
    /\ h_pc = "gathering"
    /\ cmd \in LiushuiCmds
    /\ \E i \in 1..Len(results), outcome \in FetchOutcomes :
          /\ results[i] = "pending"
          /\ results' = [results EXCEPT ![i] = outcome]
    /\ UNCHANGED <<cmd, arg, month_code, anchor_kw, located, vr_has_data,
                   fetches, reply, h_pc>>

\* _fetch_month_list, lines 638-646: the list one request contributes is
\* non-empty only when it answered with data
ContributesData(i) == results[i] = "data"

\* query.py 654-657 and 817-823: both answers are in; the lists are merged
\* and searched for the keyword
LiushuiMerge ==
    /\ HdlFrame
    /\ h_pc = "gathering"
    /\ cmd \in LiushuiCmds
    /\ \A i \in 1..Len(results) : results[i] # "pending"
    /\ \E matched \in BOOLEAN :
          IF (\E i \in 1..Len(results) : ContributesData(i)) /\ matched
          THEN reply' = reply /\ h_pc' = "render"
          ELSE reply' = Append(reply, Text("not_found")) /\ h_pc' = "done"
    /\ UNCHANGED <<cmd, arg, month_code, anchor_kw, located, vr_has_data,
                   fetches, results>>

\* query.py 825-837: render_liushui_card is not guarded
LiushuiRender ==
    /\ HdlFrame
    /\ h_pc = "render"
    /\ cmd \in LiushuiCmds
    /\ \E raised \in BOOLEAN :
          IF raised
          THEN reply' = reply /\ h_pc' = "raised"
          ELSE reply' = Append(reply, Image) /\ h_pc' = "done"
    /\ UNCHANGED <<cmd, arg, month_code, anchor_kw, located, vr_has_data,
                   fetches, results>>

\* Outcomes of GET <base> in _fetch_json_list (live_list.py 92-100) together
\* with the filter status == 1 of _handle_live_list: "data" is a list with
\* a room that is live, "empty" a list without one.
\* _handle_live_list, live_list.py 183-197
LiveListFetch ==
    /\ HdlFrame
    /\ h_pc = "start"
    /\ cmd \in LiveCmds
    /\ \E outcome \in FetchOutcomes :
          /\ Fetched(Request(BaseOf(cmd), "root", <<>>), outcome)
          /\ CASE outcome \in {"error", "bad_shape"} ->
                  reply' = Append(reply, Text("fetch_failed")) /\ h_pc' = "done"
               [] outcome = "empty" ->
                  reply' = Append(reply, Text("no_live")) /\ h_pc' = "done"
               [] OTHER -> reply' = reply /\ h_pc' = "render"
    /\ UNCHANGED <<cmd, arg, month_code, anchor_kw, located, vr_has_data>>

\* _handle_live_list, live_list.py 199-206
LiveListRender ==
    /\ HdlFrame
    /\ h_pc = "render"
    /\ cmd \in LiveCmds
    /\ \E raised \in BOOLEAN :
          reply' = Append(reply, IF raised THEN Text("render_failed")
                                           ELSE Image)
    /\ h_pc' = "done"
    /\ UNCHANGED <<cmd, arg, month_code, anchor_kw, located, vr_has_data,
                   fetches, results>>

\* The argument texts tried with every command.
HandlerArgs ==
    { <<>>,
      <<" ">>,
      <<"2", "0", "2", "5", "0", "9">>,
      <<"2", "0", "2", "5", "-", "0", "9">>,
      <<" ", "2", "0", "2", "5", "1", "2", " ">>,
      <<"2", "0", "2", "5", "1", "3">>,
      <<"2", "0", "2", "5", "-", "0", "0">>,
      <<"2", "0", "2", "5", "9">>,
      <<"a", "b", "c", "d", "e", "f">>,
      <<"U+FF12", "U+FF10", "U+FF12", "U+FF15", "U+FF10", "U+FF19">>,
      <<"A">>,
      <<"A", " ", "2", "0", "2", "5", "0", "9">>,
      <<"A", " ", " ", "2", "0", "2", "5", "-", "0", "9">>,
      <<"A", " ", "2", "0", "2", "5", "1", "3">>,
      <<"A", " ", "2", "0", "2", "5", "-", "1", "3">>,
      <<"A", " ", "B", " ", "2", "0", "2", "5", "0", "9">> }

HdlInit ==
    /\ cmd \in Commands
    /\ arg \in HandlerArgs
    /\ month_code = <<>>
    /\ anchor_kw = <<>>
    /\ located = ""
    /\ vr_has_data = FALSE
    /\ fetches = <<>>
    /\ results = <<>>
    /\ reply = <<>>
    /\ h_pc = "start"

HdlIdle ==
    /\ cmd = ""
    /\ arg = <<>>
    /\ month_code = <<>>
    /\ anchor_kw = <<>>
    /\ located = ""
    /\ vr_has_data = FALSE
    /\ fetches = <<>>
    /\ results = <<>>
    /\ reply = <<>>
    /\ h_pc = "idle"

HdlNext ==
    \/ DouchongStart
    \/ DouchongFetch
    \/ DouchongRender
    \/ BrawlStart
    \/ BrawlFetchVR
    \/ BrawlFetchPSP
    \/ BrawlRender
    \/ QueryStart
    \/ LocateStep
    \/ QueryFetch
    \/ QueryRender
    \/ LiushuiIssue
    \/ LiushuiComplete
    \/ LiushuiMerge
    \/ LiushuiRender
    \/ LiveListFetch
    \/ LiveListRender

-----------------------------------------------------------------------------
(* render_sc_images, the sort: query.py 401-405 and 453-456.               *)
(* datetime.strptime(s, "%Y-%m-%d %H:%M:%S") is modelled by its parsing    *)
(* rules; a datetime is the tuple <<Y, M, D, h, m, s>>.                    *)

\* The length of the digit run at the head of s, at most n.
DigitRun(s, n) ==
    CHOOSE k \in 0..n :
        /\ k <= Len(s)
        /\ \A i \in 1..k : IsDecimal(s[i])
        /\ k = n \/ k = Len(s) \/ ~IsDecimal(s[k + 1])

ParseStart(s) == [ok |-> TRUE, rest |-> s, vals |-> <<>>]

ParseFail(st) == [st EXCEPT !.ok = FALSE]

\* A literal character of the format
Lit(st, c) ==
    IF st.ok /\ st.rest # <<>> /\ st.rest[1] = c
    THEN [st EXCEPT !.rest = Tail(@)]
    ELSE ParseFail(st)

\* The blank of the format matches \s+
Blanks(st) ==
    IF st.ok /\ st.rest # <<>> /\ IsSpace(st.rest[1])
    THEN [st EXCEPT !.rest = LStrip(@)]
    ELSE ParseFail(st)

\* A numeric directive: a run of minlen..n digits with a value in lo..hi
Num(st, minlen, n, lo, hi) ==
    IF ~st.ok THEN st
    ELSE LET k == DigitRun(st.rest, n)
             v == IF k = 0 THEN 0 ELSE DigitsToInt(SubSeq(st.rest, 1, k))
         IN IF k >= minlen /\ v >= lo /\ v <= hi
            THEN [ok |-> TRUE, rest |-> SubSeq(st.rest, k + 1, Len(st.rest)),
                  vals |-> Append(st.vals, v)]
            ELSE ParseFail(st)

\* %d also accepts a blank followed by one digit 1..9
DayNum(st) ==
    IF st.ok /\ Len(st.rest) >= 2 /\ st.rest[1] = " "
    THEN Num([st EXCEPT !.rest = Tail(@)], 1, 1, 1, 9)
    ELSE Num(st, 1, 2, 1, 31)

IsLeap(y) == (y % 4 = 0 /\ y % 100 # 0) \/ y % 400 = 0

DaysInMonth(y, m) ==
    CASE m \in {4, 6, 9, 11} -> 30
      [] m = 2 -> IF IsLeap(y) THEN 29 ELSE 28
      [] OTHER -> 31

\* datetime.strptime(s, "%Y-%m-%d %H:%M:%S"): Some(datetime), or None when
\* it raises ValueError
Strptime(s) ==
    LET y  == Num(ParseStart(s), 4, 4, 0, 9999)
        mo == Num(Lit(y, "-"), 1, 2, 1, 12)
        d  == DayNum(Lit(mo, "-"))
        h  == Num(Blanks(d), 1, 2, 0, 23)
        mi == Num(Lit(h, ":"), 1, 2, 0, 59)
        se == Num(Lit(mi, ":"), 1, 2, 0, 61)
        v  == se.vals
    IN IF /\ se.ok
          /\ se.rest = <<>>
          /\ v[1] >= 1
          /\ v[3] <= DaysInMonth(v[1], v[2])
          /\ v[6] <= 59
       THEN Some(v)
       ELSE None

\* datetime.datetime.min
DatetimeMin == <<1, 1, 1, 0, 0, 0>>

\* datetime.datetime.max, to the second
DatetimeMax == <<9999, 12, 31, 23, 59, 59>>

\* a <= b on datetimes
DtLessEq(a, b) ==
    \/ a = b
    \/ \E k \in 1..6 : /\ \A i \in 1..(k - 1) : a[i] = b[i]
                       /\ a[k] < b[k]

\* _safe_dt(s), lines 401-405
SafeDt_unparsed_last(s) ==
    IF Strptime(s) # None THEN Strptime(s)[1] ELSE DatetimeMax

SafeDt(s) == IF Strptime(s) # None THEN Strptime(s)[1] ELSE DatetimeMin

\* line 453: key=lambda it: _safe_dt(str(it.get("send_time", "")))
ScSortKey(item) == SafeDt(PyToStr(Get(item, "send_time", PyStr(<<>>))))

\* sorted(sc_list, key=...): stable, ascending.  Insert x behind every
\* element whose key is not greater.
RECURSIVE InsertAsc(_, _)
InsertAsc(sorted, x) ==
    IF sorted = <<>> THEN <<x>>
    ELSE IF DtLessEq(ScSortKey(sorted[1]), ScSortKey(x))
         THEN <<sorted[1]>> \o InsertAsc(Tail(sorted), x)
         ELSE <<x>> \o sorted

RECURSIVE SortAscStable(_)
SortAscStable(list) ==
    IF list = <<>> THEN <<>>
    ELSE InsertAsc(SortAscStable(SubSeq(list, 1, Len(list) - 1)),
                   list[Len(list)])

\* line 457: str(item.get("send_time", "") or "")
ScTimeText(item) ==
    LET val == Get(item, "send_time", PyStr(<<>>))
    IN IF IsTruthy(val) THEN PyToStr(val) ELSE <<>>

\* lines 455-482: the row of one entry; id is the entry's identity (its
\* position in the fetched list).  The other columns read other fields.
ScRow(item) == [id |-> item.id, time |-> ScTimeText(item)]

\* line 453
ScSort ==
    /\ ScFrame
    /\ sc_pc = "start"
    /\ sc_sorted' = SortAscStable(sc_list)
    /\ sc_pc' = "sorted"
    /\ UNCHANGED <<sc_list, sc_rows>>

\* lines 455-482: for item in sc_sorted: rows.append(...)
ScBuildRows ==
    /\ ScFrame
    /\ sc_pc = "sorted"
    /\ sc_rows' = [i \in 1..Len(sc_sorted) |-> ScRow(sc_sorted[i])]
    /\ sc_pc' = "rows"
    /\ UNCHANGED <<sc_list, sc_sorted>>

\* The send_time values tried: missing, null, a number, and texts.
ScTimes ==
    { PyAbsent, PyNone, PyInt(0),
      PyStr(<<>>),
      PyStr(<<"b", "a", "d">>),
      PyStr(<<"2", "0", "2", "5", "-", "0", "9", "-", "0", "1", " ", "1", "0", ":", "0", "0", ":", "0", "0">>),
      PyStr(<<"2", "0", "2", "5", "-", "0", "9", "-", "0", "1", " ", "0", "9", ":", "5", "9", ":", "5", "9">>),
      PyStr(<<"2", "0", "2", "5", "-", "9", "-", "1", " ", "1", "0", ":", "0", "0", ":", "0", "0">>),
      PyStr(<<"2", "0", "2", "5", "-", "1", "3", "-", "0", "1", " ", "0", "0", ":", "0", "0", ":", "0", "0">>),
      PyStr(<<"2", "0", "2", "5", "-", "0", "2", "-", "3", "0", " ", "0", "0", ":", "0", "0", ":", "0", "0">>),
      PyStr(<<"0", "0", "0", "1", "-", "0", "1", "-", "0", "1", " ", "0", "0", ":", "0", "0", ":", "0", "0">>),
      PyStr(<<"2", "0", "2", "5", "-", "0", "9", "-", "0", "1", " ", "1", "0", ":", "0", "0", ":", "6", "0">>) }

ScLists(n) ==
    UNION { { [i \in 1..k |-> [id |-> i, send_time |-> ts[i]]] :
                ts \in [1..k -> ScTimes] } : k \in 0..n }

ScInit ==
    /\ sc_list \in ScLists(MaxScRows)
    /\ sc_sorted = <<>>
    /\ sc_rows = <<>>
    /\ sc_pc = "start"

ScIdle ==
    /\ sc_list = <<>>
    /\ sc_sorted = <<>>
    /\ sc_rows = <<>>
    /\ sc_pc = "idle"

ScNext ==
    \/ ScSort
    \/ ScBuildRows

-----------------------------------------------------------------------------
(* Text layout: toolkit.py 36-133 and 237-256.                             *)
(* A character is a one-character string, or the name "U+XXXX" of a code   *)
(* point outside ASCII.                                                    *)

\* ord(ch) of the characters used
Ord(ch) ==
    CASE ch = "U+4E2D" -> 20013      \* CJK ideograph
      [] ch = "U+00A9" -> 169        \* COPYRIGHT SIGN, category So
      [] ch = "U+2600" -> 9728       \* BLACK SUN WITH RAYS
      [] ch = "U+1F600" -> 128512    \* GRINNING FACE
      [] ch = "U+FE0F" -> 65039      \* VARIATION SELECTOR-16
      [] ch = "U+200D" -> 8205       \* ZERO WIDTH JOINER
      [] ch = "." -> 46
      [] ch = "a" -> 97
      [] OTHER -> 63

\* unicodedata.category(ch) == "So", for the characters used
IsCategorySo(ch) == ch \in {"U+00A9", "U+2600", "U+1F600"}

\* ord(ch) in (0xFE0F, 0x200D)
IsModifier(ch) == Ord(ch) \in {65039, 8205}

\* _is_emoji_char, lines 57-80
IsEmojiChar(ch) ==
    \/ IsModifier(ch)
    \/ (127744 <= Ord(ch) /\ Ord(ch) <= 129791)
    \/ (9728 <= Ord(ch) /\ Ord(ch) <= 10175)
    \/ (127462 <= Ord(ch) /\ Ord(ch) <= 127487)
    \/ IsCategorySo(ch)

Run_first_char_only(t, e) == [text |-> <<t[1]>>, is_emoji |-> e]

Run(t, e) == [text |-> t, is_emoji |-> e]

\* lines 120-121: if is_e == buf_is_emoji: buf.append(ch)
JoinsRun_never(is_e, buf_is_emoji) == FALSE

JoinsRun(is_e, buf_is_emoji) == is_e = buf_is_emoji

\* lines 110-113: a modifier with an empty buffer starts a run of this class
ModifierRunClass == TRUE

\* _split_runs_by_emoji, lines 101-133: the loop from index i with the
\* buffer buf of class buf_is_emoji, out being the runs yielded so far
RECURSIVE SplitRunsFrom(_, _, _, _, _)
SplitRunsFrom(s, i, buf, buf_is_emoji, out) ==
    IF i > Len(s)
    THEN IF buf # <<>> THEN Append(out, Run(buf, buf_is_emoji)) ELSE out
    ELSE LET ch == s[i]
             is_e == IsEmojiChar(ch)
         IN IF IsModifier(ch)
            THEN IF buf # <<>>
                 THEN SplitRunsFrom(s, i + 1, Append(buf, ch), buf_is_emoji,
                                    out)
                 ELSE SplitRunsFrom(s, i + 1, <<ch>>, ModifierRunClass, out)
            ELSE IF buf = <<>>
                 THEN SplitRunsFrom(s, i + 1, <<ch>>, is_e, out)
                 ELSE IF JoinsRun(is_e, buf_is_emoji)
                      THEN SplitRunsFrom(s, i + 1, Append(buf, ch),
                                         buf_is_emoji, out)
                      ELSE SplitRunsFrom(s, i + 1, <<ch>>, is_e,
                                         Append(out, Run(buf, buf_is_emoji)))

\* list(_split_runs_by_emoji(s)), lines 83-133
SplitRunsByEmoji(s) ==
    IF s = <<>> THEN <<>> ELSE SplitRunsFrom(s, 1, <<>>, FALSE, <<>>)

\* The advance of a character in a font, in pixels: data of the font files
\* (the text font draws a missing glyph for an emoji).
Advance(ch, f) ==
    CASE IsModifier(ch) -> 0
      [] ch = "." -> 8
      [] ch = "a" -> 17
      [] OTHER -> 30

RECURSIVE RunAdvance(_, _)
RunAdvance(t, f) ==
    IF t = <<>> THEN 0 ELSE Advance(t[1], f) + RunAdvance(Tail(t), f)

\* right - left of draw.textbbox((0, 0), text, font=font): the inked width
InkWidth(t, f) == IF RunAdvance(t, f) = 0 THEN 0 ELSE RunAdvance(t, f) - 1

\* The measurement methods of _text_length in the order they are tried
Methods_bbox_first == <<"textbbox", "getlength", "textlength">>

Methods == <<"textlength", "getlength", "textbbox">>

\* What a method returns when it does not raise: lines 44, 48, 52-53
MethodValue(method, t, f) ==
    IF method = "textbbox" THEN InkWidth(t, f) ELSE RunAdvance(t, f)

\* line 55: len(text) * 10
CharCountWidth(t) == Len(t) * 10

\* _text_length(draw, text, font), lines 36-55, when exactly the methods in
\* working do not raise
TextLength(t, f, working) ==
    IF \E k \in 1..Len(Methods) : Methods[k] \in working
    THEN MethodValue(Methods[CHOOSE k \in 1..Len(Methods) :
                                /\ Methods[k] \in working
                                /\ \A j \in 1..(k - 1) :
                                      Methods[j] \notin working],
                     t, f)
    ELSE CharCountWidth(t)

\* lines 244, 253: font = self.__emoji_font if run_is_emoji else
\* self.__text_font
RunFont(r) == IF r.is_emoji THEN "emoji" ELSE "text"

\* PicGenerator._measure_with_fallback, lines 250-256
MeasureWithFallback(t, working) ==
    LET rs == SplitRunsByEmoji(t)
    IN SumSeq([k \in 1..Len(rs) |->
                  TextLength(rs[k].text, RunFont(rs[k]), working)])

-----------------------------------------------------------------------------
(* _limit_text_by_px: live_list.py 64-89.                                  *)

\* suffix = "..."
Suffix == <<".", ".", ".">>

\* lines 84-88: the loop from index i with acc accumulated
RECURSIVE LimitLoop(_, _, _, _, _)
LimitLoop(t, i, acc, budget, working) ==
    IF i > Len(t) THEN acc
    ELSE IF MeasureWithFallback(Append(acc, t[i]), working)
              + MeasureWithFallback(Suffix, working) > budget
         THEN acc
         ELSE LimitLoop(t, i + 1, Append(acc, t[i]), budget, working)

\* line 89: return "".join(acc) + suffix
LimitResult(acc) == acc \o Suffix

\* _limit_text_by_px(pic, text, max_px)
LimitTextByPx(t, budget, working) ==
    IF t = <<>> THEN <<>>
    ELSE IF MeasureWithFallback(t, working) <= budget THEN t
    ELSE LimitResult(LimitLoop(t, 1, <<>>, budget, working))

CallLimitText ==
    /\ TxtFrame
    /\ txt_pc = "limit"
    /\ limited' = LimitTextByPx(txt, max_px, avail)
    /\ txt_pc' = "limited"
    /\ UNCHANGED <<txt, font, max_px, avail, relimited, runs, tl_tried,
                   tl_out>>

CallLimitTextAgain ==
    /\ TxtFrame
    /\ txt_pc = "limited"
    /\ relimited' = LimitTextByPx(limited, max_px, avail)
    /\ txt_pc' = "relimited"
    /\ UNCHANGED <<txt, font, max_px, avail, limited, runs, tl_tried,
                   tl_out>>

\* The characters of the texts tried
TextChars == {"a", ".", "U+4E2D", "U+1F600", "U+FE0F"}

Texts(n) == UNION { [1..k -> TextChars] : k \in 0..n }

\* The budgets tried: multiples of PxStep
Budgets == { PxStep * k : k \in 0..MaxPxSteps }

TxtBlank ==
    /\ limited = <<>>
    /\ relimited = <<>>
    /\ runs = <<>>
    /\ tl_tried = <<>>
    /\ tl_out = 0

LimitInit ==
    /\ txt \in Texts(MaxTextLen)
    /\ font = "text"
    /\ max_px \in Budgets
    /\ avail \in SUBSET Range(Methods)
    /\ TxtBlank
    /\ txt_pc = "limit"

TxtIdle ==
    /\ txt = <<>>
    /\ font = "text"
    /\ max_px = 0
    /\ avail = {}
    /\ TxtBlank
    /\ txt_pc = "idle"

LimitNext ==
    \/ CallLimitText
    \/ CallLimitTextAgain

-----------------------------------------------------------------------------
(* _split_runs_by_emoji called on its own: toolkit.py 83-133.              *)

\* list(_split_runs_by_emoji(txt))
CallSplitRuns ==
    /\ TxtFrame
    /\ txt_pc = "split"
    /\ runs' = SplitRunsByEmoji(txt)
    /\ txt_pc' = "runs"
    /\ UNCHANGED <<txt, font, max_px, avail, limited, relimited, tl_tried,
                   tl_out>>

\* The characters of the texts split: letters, an ideograph, symbols of
\* category So, an emoji and both modifiers
RunChars ==
    {"a", "U+4E2D", "U+00A9", "U+2600", "U+1F600", "U+FE0F", "U+200D"}

RunTexts(n) == UNION { [1..k -> RunChars] : k \in 0..n }

RunsInit ==
    /\ txt \in RunTexts(MaxTextLen)
    /\ font = "text"
    /\ max_px = 0
    /\ avail = {}
    /\ TxtBlank
    /\ txt_pc = "split"

RunsNext == CallSplitRuns

-----------------------------------------------------------------------------
(* _text_length step by step: toolkit.py 36-55.  A method that is not in   *)
(* avail raises when it is called.                                         *)

\* lines 43-54: the next method is called inside its try block; its value
\* is returned, or its exception is caught and the next method is tried
TextLengthTry ==
    /\ TxtFrame
    /\ txt_pc = "measure"
    /\ Len(tl_tried) < Len(Methods)
    /\ LET method == Methods[Len(tl_tried) + 1]
       IN /\ tl_tried' = Append(tl_tried, method)
          /\ IF method \in avail
             THEN /\ tl_out' = MethodValue(method, txt, font)
                  /\ txt_pc' = "measured"
             ELSE UNCHANGED <<tl_out, txt_pc>>
    /\ UNCHANGED <<txt, font, max_px, avail, limited, relimited, runs>>

\* lines 54-55: except Exception: return len(text) * 10
TextLengthLastResort ==
    /\ TxtFrame
    /\ txt_pc = "measure"
    /\ Len(tl_tried) = Len(Methods)
    /\ tl_out' = CharCountWidth(txt)
    /\ txt_pc' = "measured"
    /\ UNCHANGED <<txt, font, max_px, avail, limited, relimited, runs,
                   tl_tried>>

\* lines 243, 252: the two fonts a run is measured in
Fonts == {"text", "emoji"}

TextLengthInit ==
    /\ txt \in Texts(MaxTextLen)
    /\ font \in Fonts
    /\ max_px = 0
    /\ avail \in SUBSET Range(Methods)
    /\ TxtBlank
    /\ txt_pc = "measure"

TextLengthNext ==
    \/ TextLengthTry
    \/ TextLengthLastResort

-----------------------------------------------------------------------------
(* Duration labels: format_duration (douchong.py 80-90) and                *)
(* _format_duration_hours (query.py 660-670).                              *)

\* s.split(sep) for a one-character sep
RECURSIVE SplitOnFrom(_, _, _, _)
SplitOnFrom(s, sep, tok, acc) ==
    IF s = <<>> THEN Append(acc, tok)
    ELSE IF s[1] = sep THEN SplitOnFrom(Tail(s), sep, <<>>, Append(acc, tok))
    ELSE SplitOnFrom(Tail(s), sep, Append(tok, s[1]), acc)

SplitOn(s, sep) == SplitOnFrom(s, sep, <<>>, <<>>)

\* The two characters of the label's unit, U+5C0F U+65F6
HoursSuffix == <<"U+5C0F", "U+65F6">>

\* h + m / 60 + s / 3600, as a whole number of seconds
TotalSeconds_drops_seconds(h, m, sec) == 3600 * h + 60 * m

TotalSeconds(h, m, sec) == 3600 * h + 60 * m + sec

\* The <<h, m, s>> whose hours lie exactly halfway between two decimals of
\* one place (of two places) and whose binary floating-point value
\* h + m / 60 + s / 3600 is formatted as the larger one; every other
\* halfway value of the inputs tried is formatted as the smaller one.
HalfwayUp1 ==
    { <<0, 3, 0>>,
      <<1, 3, 0>>,
      <<9, 3, 0>>,
      <<9, 9, 0>>,
      <<30, 3, 0>>,
      <<-1, 3, 0>>,
      <<-1, 9, 0>> }

HalfwayUp2 ==
    { <<0, 1, 30>>,
      <<9, 1, 30>>,
      <<-1, 1, 30>> }

\* 10 ** places
Pow10(places) == IF places = 1 THEN 10 ELSE 100

\* The digits of n, padded with zeros to the given width
ZeroPad(n, width) ==
    LET d == NatToStr(n)
    IN [i \in 1..(width - Len(d)) |-> "0"] \o d

\* f"{total_hours:.1f}" and f"{total_hours:.2f}" for
\* total_hours = h + m / 60 + s / 3600
FormatHours(h, m, sec, places) ==
    LET unit == 3600 \div Pow10(places)
        total == TotalSeconds(h, m, sec)
        lo == total \div unit
        r == total % unit
        up == IF places = 1 THEN HalfwayUp1 ELSE HalfwayUp2
        k == IF 2 * r < unit THEN lo
             ELSE IF 2 * r > unit THEN lo + 1
             ELSE IF <<h, m, sec>> \in up THEN lo + 1 ELSE lo
        a == IF k < 0 THEN 0 - k ELSE k
    IN (IF total < 0 THEN <<"-">> ELSE <<>>)
       \o NatToStr(a \div Pow10(places)) \o <<".">>
       \o ZeroPad(a % Pow10(places), places)

\* h, m, s = map(int, parts): Some(<<h, m, s>>), or None when int() raises
MapInt(parts) ==
    IF \A i \in 1..Len(parts) : ToInt(PyStr(parts[i])) # None
    THEN Some([i \in 1..Len(parts) |-> ToInt(PyStr(parts[i]))[1]])
    ELSE None

\* the number of decimals of each label: douchong.py 87, query.py 667
TablePlaces == 1

CardPlaces == 2

\* format_duration(hms) for a str hms
format_duration(hms) ==
    LET parts == SplitOn(hms, ":")
    IN IF Len(parts) = 3 /\ MapInt(parts) # None
       THEN LET v == MapInt(parts)[1]
            IN FormatHours(v[1], v[2], v[3], TablePlaces) \o HoursSuffix
       ELSE hms

\* _format_duration_hours(live_duration) for a str live_duration
format_duration_hours(live_duration) ==
    LET parts == SplitOn(live_duration, ":")
    IN IF Len(parts) = 3 /\ MapInt(parts) # None
       THEN LET v == MapInt(parts)[1]
            IN FormatHours(v[1], v[2], v[3], CardPlaces) \o HoursSuffix
       ELSE IF live_duration # <<>> THEN live_duration
       ELSE <<"0", "0", ":", "0", "0", ":", "0", "0">>

CallFormatDuration ==
    /\ DurFrame
    /\ dur_pc = "call"
    /\ dur_out' = format_duration(dur_in)
    /\ dur_pc' = "table"
    /\ UNCHANGED dur_in

CallFormatDurationHours ==
    /\ DurFrame
    /\ dur_pc = "call"
    /\ dur_out' = format_duration_hours(dur_in)
    /\ dur_pc' = "card"
    /\ UNCHANGED dur_in

\* The texts tried between the colons
DurationFields ==
    { <<"0", "0">>, <<"0", "1">>, <<" ", "2">>, <<"0", "3">>, <<"0", "9">>,
      <<"3", "0">>, <<"-", "1">>, <<"x">>, <<>> }

DurationTexts ==
    { a \o <<":">> \o b \o <<":">> \o c :
        a \in DurationFields, b \in DurationFields, c \in DurationFields }
    \cup { <<>>, <<"b", "a", "d">>, <<"0", "1", ":", "3", "0">>,
           <<"0", "1", ":", "3", "0", ":", "0", "0", ":", "0", "0">> }

DurInit ==
    /\ dur_in \in DurationTexts
    /\ dur_out = <<>>
    /\ dur_pc = "call"

DurIdle ==
    /\ dur_in = <<>>
    /\ dur_out = <<>>
    /\ dur_pc = "idle"

DurNext ==
    \/ CallFormatDuration
    \/ CallFormatDurationHours

-----------------------------------------------------------------------------
(* render_live_sessions_image, the time columns of one session:            *)
(* query.py 126-140, 175-176 and 199-218.                                  *)

\* date.toordinal(): the days from 0001-01-01, that day being 1
Ordinal(dt) ==
    LET y == dt[1] - 1
    IN 365 * y + y \div 4 - y \div 100 + y \div 400
       + SumSeq([k \in 1..(dt[2] - 1) |-> DaysInMonth(dt[1], k)]) + dt[3]

SecondOfDay(dt) == 3600 * dt[4] + 60 * dt[5] + dt[6]

\* int((b - a).total_seconds()) of two datetimes without microseconds
SecondsFromTo(a, b) ==
    (Ordinal(b) - Ordinal(a)) * 86400 + SecondOfDay(b) - SecondOfDay(a)

\* _parse_dt(s), lines 126-130: Some(datetime) or None
ParseDt(s) == Strptime(s)

\* _sec_to_hms(total_seconds), lines 133-139
SecToHms(total_seconds) ==
    LET t == IF total_seconds < 0 THEN 0 ELSE total_seconds
    IN ZeroPad(t \div 3600, 2) \o <<":">>
       \o ZeroPad((t % 3600) \div 60, 2) \o <<":">> \o ZeroPad(t % 60, 2)

\* str(s.get(key) or ""), lines 175-176
SessionText(sess, key) ==
    IF IsTruthy(GetOrNone(sess, key)) THEN PyToStr(GetOrNone(sess, key))
    ELSE <<>>

\* "直播中"
InProgress == <<"U+76F4", "U+64AD", "U+4E2D">>

\* "—"
Dash == <<"U+2014">>

\* lines 199-200: _parse_dt(x) if x else None
ParseIfPresent(x) == IF x # <<>> THEN ParseDt(x) ELSE None

\* lines 202-211: dur_sec
SessionDurSec_until_now(dt_start, dt_end, now) ==
    IF dt_start = None THEN 0 ELSE SecondsFromTo(dt_start[1], now)

SessionDurSec(dt_start, dt_end, now) ==
    IF dt_start = None THEN 0
    ELSE IF dt_end # None THEN SecondsFromTo(dt_start[1], dt_end[1])
    ELSE SecondsFromTo(dt_start[1], now)

\* lines 202-211: end_disp
SessionEndDisp(end_str, dt_start, dt_end) ==
    IF dt_start # None
    THEN IF dt_end # None THEN end_str ELSE InProgress
    ELSE IF end_str # <<>> THEN end_str ELSE Dash

\* lines 213-217: the start, end and duration entries of the row dict
SessionTimeEntries(sess, now) ==
    LET start_str == SessionText(sess, "start_time")
        end_str == SessionText(sess, "end_time")
        dt_start == ParseIfPresent(start_str)
        dt_end == ParseIfPresent(end_str)
    IN [ start |-> IF start_str # <<>> THEN start_str ELSE Dash,
         end |-> SessionEndDisp(end_str, dt_start, dt_end),
         duration |-> SecToHms(SessionDurSec(dt_start, dt_end, now)) ]

\* One turn of `for s in sessions`, the time columns
SessionTimeRow ==
    /\ StFrame
    /\ st_pc = "session"
    /\ st_row' = SessionTimeEntries(st_sess, st_now.dt)
    /\ st_pc' = "row"
    /\ UNCHANGED <<st_sess, st_now>>

\* The instants tried, each with its distance in seconds from
\* 2025-08-31 00:00:00
SessionInstants ==
    { [dt |-> <<2025, 9, 1, 10, 0, 0>>, at |-> 122400],
      [dt |-> <<2025, 9, 1, 12, 30, 5>>, at |-> 131405],
      [dt |-> <<2025, 8, 31, 23, 59, 59>>, at |-> 86399] }

SessionNows ==
    { [dt |-> <<2025, 9, 1, 11, 0, 0>>, at |-> 126000],
      [dt |-> <<2025, 9, 5, 10, 0, 0>>, at |-> 468000] }

\* "%Y-%m-%d %H:%M:%S" of an instant
IsoText(dt) ==
    ZeroPad(dt[1], 4) \o <<"-">> \o ZeroPad(dt[2], 2) \o <<"-">>
    \o ZeroPad(dt[3], 2) \o <<" ">> \o ZeroPad(dt[4], 2) \o <<":">>
    \o ZeroPad(dt[5], 2) \o <<":">> \o ZeroPad(dt[6], 2)

\* The values of start_time and end_time tried
SessionTimeValues ==
    { PyAbsent, PyNone, PyStr(<<>>), PyStr(<<"b", "a", "d">>) }
        \cup { PyStr(IsoText(i.dt)) : i \in SessionInstants }

NoRow == [start |-> <<>>, end |-> <<>>, duration |-> <<>>]

StInit ==
    /\ st_sess \in [ {"start_time", "end_time"} -> SessionTimeValues ]
    /\ st_now \in SessionNows
    /\ st_row = NoRow
    /\ st_pc = "session"

StIdle ==
    /\ st_sess = [k \in {"start_time", "end_time"} |-> PyAbsent]
    /\ st_now = CHOOSE n \in SessionNows : TRUE
    /\ st_row = NoRow
    /\ st_pc = "idle"

StNext == SessionTimeRow

-----------------------------------------------------------------------------
(* render_sc_images, the message cell and the row height:                  *)
(* query.py 360-380 and 467-471.                                           *)

SC_MAX_PAGE_HEIGHT == 16000

BASE_ROW_H == 60

EXTRA_PER_LINE == 28

MSG_MAX_CHARS_PER_LINE == 20

\* re.sub(r"\s+", " ", s) after both replace calls: every run of whitespace
\* becomes one blank
RECURSIVE CollapseWs(_)
CollapseWs(s) ==
    IF s = <<>> THEN <<>>
    ELSE IF IsSpace(s[1]) THEN <<" ">> \o CollapseWs(LStrip(s))
    ELSE <<s[1]>> \o CollapseWs(Tail(s))

\* clean_sc_message(raw), lines 365-370 (raw_msg is its parameter raw)
clean_sc_message(raw_msg) ==
    IF raw_msg = <<>> THEN <<>> ELSE Strip(CollapseWs(raw_msg))

\* lines 376-379: the loop of wrap_sc_message from index i (0-based)
RECURSIVE WrapFrom(_, _, _, _)
WrapFrom(text, max_chars, i, lines) ==
    IF i < Len(text)
    THEN WrapFrom(text, max_chars, i + max_chars,
                  Append(lines,
                         SubSeq(text, i + 1,
                                IF i + max_chars < Len(text)
                                THEN i + max_chars ELSE Len(text))))
    ELSE lines

\* wrap_sc_message(text, max_chars), lines 372-380
wrap_sc_message(text, max_chars) ==
    IF text = <<>> THEN << <<>> >>
    ELSE LET lines == WrapFrom(text, max_chars, 0, <<>>)
         IN IF lines # <<>> THEN lines ELSE << <<>> >>

\* lines 469-470: line_count = max(1, len(msg_lines));
\* row_height = BASE_ROW_H + (line_count - 1) * EXTRA_PER_LINE
RowHeightOfLines_counts_first(msg_lns) ==
    BASE_ROW_H + Len(msg_lns) * EXTRA_PER_LINE

RowHeightOfLines(msg_lns) ==
    LET line_count == IF Len(msg_lns) > 1 THEN Len(msg_lns) ELSE 1
    IN BASE_ROW_H + (line_count - 1) * EXTRA_PER_LINE

\* line 467: str(item.get("message", "") or "")
MessageText(item) ==
    LET val == Get(item, "message", PyStr(<<>>))
    IN IF IsTruthy(val) THEN PyToStr(val) ELSE <<>>

\* line 467
ScCleanMessage ==
    /\ MsgFrame
    /\ msg_pc = "item"
    /\ msg_clean' = clean_sc_message(MessageText(msg_item))
    /\ msg_pc' = "clean"
    /\ UNCHANGED <<msg_item, msg_lines, msg_row_height>>

\* lines 468-470
ScWrapMessage ==
    /\ MsgFrame
    /\ msg_pc = "clean"
    /\ msg_lines' = wrap_sc_message(msg_clean, MSG_MAX_CHARS_PER_LINE)
    /\ msg_row_height' =
           RowHeightOfLines(wrap_sc_message(msg_clean, MSG_MAX_CHARS_PER_LINE))
    /\ msg_pc' = "row"
    /\ UNCHANGED <<msg_item, msg_clean>>

\* The messages tried: n characters, the digit of the position, and in the
\* patterns other than "plain" whitespace inside or at both ends
MsgPatterns == {"plain", "inner", "edges"}

MsgChar(pat, n, i) ==
    CASE pat = "inner" /\ i \in {3, 4, 5} -> IF i = 4 THEN "\n" ELSE " "
      [] pat = "edges" /\ i \in {1, n} -> " "
      [] OTHER -> Digits10[(i % 10) + 1]

MsgValues ==
    { PyAbsent, PyNone, PyInt(0), PyInt(7) }
        \cup { PyStr([i \in 1..n |-> MsgChar(pat, n, i)]) :
                 pat \in MsgPatterns, n \in 0..MaxMsgLen }

MsgInit ==
    /\ msg_item \in [ {"message"} -> MsgValues ]
    /\ msg_clean = <<>>
    /\ msg_lines = <<>>
    /\ msg_row_height = 0
    /\ msg_pc = "item"

MsgIdle ==
    /\ msg_item = [k \in {"message"} |-> PyAbsent]
    /\ msg_clean = <<>>
    /\ msg_lines = <<>>
    /\ msg_row_height = 0
    /\ msg_pc = "idle"

MsgNext ==
    \/ ScCleanMessage
    \/ ScWrapMessage

-----------------------------------------------------------------------------
(* PicGenerator: toolkit.py 135-342.                                       *)
(* The canvas is the sequence of its pixel rows, top first; a row is the   *)
(* index it had on the canvas as constructed, or Pad for a row that a      *)
(* crop added outside the image.  A texts argument is the list of its      *)
(* segments, a str being one segment.                                      *)

\* line 175: self.__text_font = ImageFont.truetype(str(normal_path), 30)
TextFontSize == 30

\* line 178: self.__row_space = 25
InitialRowSpace == 25

\* line 151: auto_size_margin: int = 10
DefaultAutoSizeMargin == 10

\* a row outside the source image of a crop: transparent
Pad == -1

\* __init__, lines 142-181
NewPic(width, height, margin) ==
    [ width |-> width, height |-> height,
      canvas |-> [k \in 1..height |-> k - 1],
      xy |-> <<0, 0>>, row_space |-> InitialRowSpace,
      bottom_pic |-> None, auto_size_margin |-> margin ]

\* set_pos(x, y), lines 208-210
SetPos(p, x, y) == [p EXCEPT !.xy = <<x, y>>]

\* set_row_space(row_space), lines 204-206
SetRowSpace(p, row_space) == [p EXCEPT !.row_space = row_space]

\* move_pos(x, y), lines 212-214
MovePos(p, x, y) == [p EXCEPT !.xy = <<p.xy[1] + x, p.xy[2] + y>>]

\* Image.crop((0, upper, width, lower)) of a canvas, for upper <= lower
\* (rows upper..lower-1 of the canvas, with Pad above row 0 and below the
\* last row)
CropRows(canvas, upper, lower) ==
    LET size == Len(canvas)
        Least(a, b) == IF a <= b THEN a ELSE b
        Most(a, b) == IF a >= b THEN a ELSE b
        above == Most(0, Least(lower, 0) - upper)
        below == Most(0, lower - Most(upper, size))
    IN [k \in 1..above |-> Pad]
         \o SubSeq(canvas, Most(upper, 0) + 1, Least(lower, size))
         \o [k \in 1..below |-> Pad]

\* Image.paste(band, (0, y)) onto a canvas
PasteRows(canvas, band, y) ==
    [k \in 1..Len(canvas) |->
        IF k - 1 >= y /\ k - 1 < y + Len(band) THEN band[k - y] ELSE canvas[k]]

\* copy_bottom(height), lines 217-220
CopyBottom(p, h) ==
    [p EXCEPT !.bottom_pic = Some(CropRows(p.canvas, p.height - h, p.height))]

\* crop_and_paste_bottom(), lines 222-234
KeepsBottomPic_after_paste(p) == p.bottom_pic

KeepsBottomPic(p) == None

CropAndPasteBottom(p) ==
    IF p.bottom_pic = None
    THEN [p EXCEPT !.canvas = CropRows(p.canvas, 0, p.xy[2])]
    ELSE LET bottom == p.bottom_pic[1]
         IN [p EXCEPT
               !.canvas = PasteRows(CropRows(p.canvas, 0,
                                             p.xy[2] + Len(bottom)),
                                    bottom, p.xy[2]),
               !.bottom_pic = KeepsBottomPic(p)]

\* _draw_with_fallback(x, y, text, rgb), lines 236-246: the width drawn,
\* every measurement method of the installed Pillow working
DrawWithFallback(t) == MeasureWithFallback(t, Range(Methods))

\* One __draw.text call group of _draw_with_fallback
Drawn(x, y, t) == [x |-> x, y |-> y, text |-> t]

\* draw_text, lines 300-304, the loop from segment i on: the generator
\* after it and the texts drawn
RECURSIVE DrawFlow(_, _, _, _)
DrawFlow(p, texts, i, draws) ==
    IF i > Len(texts) THEN [pic |-> p, draws |-> draws]
    ELSE DrawFlow(MovePos(p, DrawWithFallback(texts[i]), 0), texts, i + 1,
                  Append(draws, Drawn(p.xy[1], p.xy[2], texts[i])))

\* draw_text, lines 307-311, the loop from segment i on with the local x
RECURSIVE DrawAt(_, _, _, _, _)
DrawAt(texts, i, x, y, draws) ==
    IF i > Len(texts) THEN draws
    ELSE DrawAt(texts, i + 1, x + DrawWithFallback(texts[i]), y,
                Append(draws, Drawn(x, y, texts[i])))

\* line 305: self.set_pos(base_x, self.y + self.__text_font.size
\*                                + self.__row_space)
LineAdvance_without_row_space(p) == TextFontSize

LineAdvance(p) == TextFontSize + p.row_space

\* draw_text(texts, colors, xy), lines 274-313; origin is None or Some(xy)
DrawText(p, texts, origin) ==
    IF origin = None
    THEN LET base_x == p.xy[1]
             flow == DrawFlow(p, texts, 1, <<>>)
         IN [ pic |-> SetPos(flow.pic, base_x,
                             flow.pic.xy[2] + LineAdvance(flow.pic)),
              draws |-> flow.draws ]
    ELSE [ pic |-> p,
           draws |-> DrawAt(texts, 1, origin[1][1], origin[1][2], <<>>) ]

\* lines 330-331: limit_y = int(xy_limit[1]) + self.__auto_size_margin;
\* y = max(self.y, limit_y)
RightY_ignores_limit(p, xy_limit) == p.xy[2]

RightY(p, xy_limit) ==
    LET limit_y == xy_limit[2] + p.auto_size_margin
    IN IF p.xy[2] >= limit_y THEN p.xy[2] ELSE limit_y

\* draw_text_right(margin_right, texts, colors, xy_limit), lines 315-335
DrawTextRight(p, margin_right, texts, xy_limit) ==
    LET text_len == MeasureWithFallback(Flatten(texts), Range(Methods))
        x == p.width - margin_right - text_len
        y == RightY(p, xy_limit)
        d == DrawText(p, texts, Some(<<x, y>>))
    IN [ pic |-> SetPos(d.pic, d.pic.xy[1], y + LineAdvance(d.pic)),
         draws |-> d.draws ]

\* The record of a call
Call(op, before, texts, origin, margin_right, xy_limit, h, draws) ==
    [ op |-> op, before |-> before, texts |-> texts, origin |-> origin,
      margin_right |-> margin_right, xy_limit |-> xy_limit, h |-> h,
      draws |-> draws ]

\* The arguments tried, on a canvas 200 wide and 4 high
PicPositions == { <<7, 2>>, <<0, 60>> }

PicTexts ==
    { << <<"a", "a">> >>,
      << <<"a">>, <<"U+1F600", "U+FE0F", "U+4E2D">>, <<".">> >> }

PicRightTexts == { << <<"a", "U+1F600", "a">> >> }

PicMargins == {0, 5}

PicLimits == { <<0, 0>>, <<0, 70>> }

PicBandHeights == {1, 2}

PicRowSpaces == {0}

PicSetRowSpace ==
    /\ PicFrame
    /\ pic_ops < MaxPicOps
    /\ \E row_space \in PicRowSpaces :
          /\ pic' = SetRowSpace(pic, row_space)
          /\ pic_call' = Call("set_row_space", pic, <<>>, None, 0, <<0, 0>>,
                              row_space, <<>>)
    /\ pic_ops' = pic_ops + 1

PicSetPos ==
    /\ PicFrame
    /\ pic_ops < MaxPicOps
    /\ \E pos \in PicPositions :
          /\ pic' = SetPos(pic, pos[1], pos[2])
          /\ pic_call' = Call("set_pos", pic, <<>>, Some(pos), 0, <<0, 0>>,
                              0, <<>>)
    /\ pic_ops' = pic_ops + 1

PicDrawText ==
    /\ PicFrame
    /\ pic_ops < MaxPicOps
    /\ \E texts \in PicTexts :
          /\ pic' = DrawText(pic, texts, None).pic
          /\ pic_call' = Call("draw_text", pic, texts, None, 0, <<0, 0>>, 0,
                              DrawText(pic, texts, None).draws)
    /\ pic_ops' = pic_ops + 1

PicDrawTextAt ==
    /\ PicFrame
    /\ pic_ops < MaxPicOps
    /\ \E texts \in PicTexts, pos \in PicPositions :
          /\ pic' = DrawText(pic, texts, Some(pos)).pic
          /\ pic_call' = Call("draw_text", pic, texts, Some(pos), 0,
                              <<0, 0>>, 0,
                              DrawText(pic, texts, Some(pos)).draws)
    /\ pic_ops' = pic_ops + 1

PicDrawTextRight ==
    /\ PicFrame
    /\ pic_ops < MaxPicOps
    /\ \E texts \in PicRightTexts, margin \in PicMargins,
          limit \in PicLimits :
          /\ pic' = DrawTextRight(pic, margin, texts, limit).pic
          /\ pic_call' = Call("draw_text_right", pic, texts, None, margin,
                              limit, 0,
                              DrawTextRight(pic, margin, texts, limit).draws)
    /\ pic_ops' = pic_ops + 1

PicCopyBottom ==
    /\ PicFrame
    /\ pic_ops < MaxPicOps
    /\ \E h \in PicBandHeights :
          /\ pic' = CopyBottom(pic, h)
          /\ pic_call' = Call("copy_bottom", pic, <<>>, None, 0, <<0, 0>>, h,
                              <<>>)
    /\ pic_ops' = pic_ops + 1

PicCropAndPasteBottom ==
    /\ PicFrame
    /\ pic_ops < MaxPicOps
    /\ pic' = CropAndPasteBottom(pic)
    /\ pic_call' = Call("crop_and_paste_bottom", pic, <<>>, None, 0,
                        <<0, 0>>, 0, <<>>)
    /\ pic_ops' = pic_ops + 1

NoCall == Call("", NewPic(0, 0, 0), <<>>, None, 0, <<0, 0>>, 0, <<>>)

PicInit ==
    /\ pic \in { NewPic(200, 4, m) : m \in {DefaultAutoSizeMargin, 0, -5} }
    /\ pic_call = NoCall
    /\ pic_ops = 0

PicIdle ==
    /\ pic = NewPic(0, 0, 0)
    /\ pic_call = NoCall
    /\ pic_ops = 0

PicNext ==
    \/ PicSetPos
    \/ PicSetRowSpace
    \/ PicDrawText
    \/ PicDrawTextAt
    \/ PicDrawTextRight
    \/ PicCopyBottom
    \/ PicCropAndPasteBottom

-----------------------------------------------------------------------------
(* _paginate_rows_by_height, query.py 407-440.                             *)

\* A row dict as render_sc_images builds it; id is the row's position in
\* the sorted list and stands for the row's identity.
Row(i, h) == [id |-> i, row_height |-> h]

RowSeqs == UNION { { [i \in 1..n |-> Row(i, hs[i])] :
                       hs \in [1..n -> 0..MaxRowH] } : n \in 0..MaxRows }

\* rh = int(r.get("row_height") or 0)
RowHeight(r) == r.row_height

\* max_data_h = max_canvas_h - header_h - table_header_h - table_padding_h
\* if max_data_h <= 0: max_data_h = 1
MaxDataH_forgets_header(canvas, hh, th, pad) ==
    LET d == canvas - th - pad IN IF d <= 0 THEN 1 ELSE d

MaxDataH(canvas, hh, th, pad) ==
    LET d == canvas - hh - th - pad IN IF d <= 0 THEN 1 ELSE d

\* if cur and (cur_h + rh > max_data_h):
ShouldFlush_no_cur_test(c, ch, rh, budget) == ch + rh > budget

ShouldFlush_after_overflow(c, ch, rh, budget) == c # <<>> /\ ch > budget

ShouldFlush_when_full(c, ch, rh, budget) == c # <<>> /\ (ch + rh >= budget)

ShouldFlush(c, ch, rh, budget) == c # <<>> /\ (ch + rh > budget)

\* cur = [] on a flush, then cur.append(r) in every case
CurAfter_drops_row(c, r, flush) == IF flush THEN <<>> ELSE Append(c, r)

CurAfter(c, r, flush) == Append(IF flush THEN <<>> ELSE c, r)

\* cur_h = 0 on a flush, then cur_h += rh in every case
CurHAfter(ch, rh, flush) == (IF flush THEN 0 ELSE ch) + rh

\* start_idx = global_idx on a flush (before global_idx += 1)
StartIdxAfter_page_local(si, gi, flush) == IF flush THEN 0 ELSE si

StartIdxAfter(si, gi, flush) == IF flush THEN gi ELSE si

\* return pages or [(0, [])]
PagesOrEmptyPage(ps) == IF ps = <<>> THEN << <<0, <<>>>> >> ELSE ps

\* Function entry: lines 415-423.
PaginateEnter ==
    /\ PagFrame
    /\ pag_pc = "call"
    /\ max_data_h' = MaxDataH(max_canvas_h, header_h, table_header_h,
                              table_padding_h)
    /\ pages' = <<>>
    /\ cur' = <<>>
    /\ cur_h' = 0
    /\ start_idx' = 0
    /\ global_idx' = 0
    /\ it' = 1
    /\ pag_pc' = "loop"
    /\ UNCHANGED <<rows, max_canvas_h, header_h, table_header_h,
                   table_padding_h, drawn>>

\* One iteration of `for r in rows`: lines 425-435.
PaginateRow ==
    /\ PagFrame
    /\ pag_pc = "loop"
    /\ it <= Len(rows)
    /\ LET r == rows[it]
           rh == RowHeight(r)
           flush == ShouldFlush(cur, cur_h, rh, max_data_h)
       IN /\ pages' = IF flush THEN Append(pages, <<start_idx, cur>>)
                               ELSE pages
          /\ cur' = CurAfter(cur, r, flush)
          /\ cur_h' = CurHAfter(cur_h, rh, flush)
          /\ start_idx' = StartIdxAfter(start_idx, global_idx, flush)
          /\ global_idx' = global_idx + 1
    /\ it' = it + 1
    /\ UNCHANGED <<rows, max_canvas_h, header_h, table_header_h,
                   table_padding_h, max_data_h, drawn, pag_pc>>

\* Loop exit and return: lines 437-440.
PaginateReturn ==
    /\ PagFrame
    /\ pag_pc = "loop"
    /\ it > Len(rows)
    /\ pages' = PagesOrEmptyPage(IF cur # <<>>
                                 THEN Append(pages, <<start_idx, cur>>)
                                 ELSE pages)
    /\ pag_pc' = "done"
    /\ UNCHANGED <<rows, max_canvas_h, header_h, table_header_h,
                   table_padding_h, max_data_h, cur, cur_h, start_idx,
                   global_idx, it, drawn>>

-----------------------------------------------------------------------------
(* render_sc_images, the striped row loop: query.py 497, 534-538.          *)

\* bg = Color.LIGHTGRAY if ((global_start_idx + idx) % 2 == 0) else Color.WHITE
StripeColor(global_start_idx, idx) ==
    IF (global_start_idx + idx) % 2 = 0 THEN "LIGHTGRAY" ELSE "WHITE"

\* for idx, r in enumerate(page_rows): the rows of one page with their bg
DrawPageRows(page) ==
    [k \in 1..Len(page[2]) |->
        [id |-> page[2][k].id, bg |-> StripeColor(page[1], k - 1)]]

\* for page_no, (global_start_idx, page_rows) in enumerate(pages, start=1)
RenderScPages ==
    /\ PagFrame
    /\ pag_pc = "done"
    /\ drawn' = Flatten([p \in 1..Len(pages) |-> DrawPageRows(pages[p])])
    /\ pag_pc' = "rendered"
    /\ UNCHANGED <<rows, max_canvas_h, header_h, table_header_h,
                   table_padding_h, max_data_h, pages, cur, cur_h,
                   start_idx, global_idx, it>>

-----------------------------------------------------------------------------
(* render_sc_images from the fetched list to the page images:              *)
(* query.py 442-566.  An entry is its position in the fetched list, its    *)
(* send_time and the length of its cleaned message.                        *)

ScRenderFrame == UNCHANGED <<monVars, fmtVars, tblVars, hdlVars, txtVars,
                             durVars, stVars, msgVars, picVars>>

\* len(wrap_sc_message(text, MSG_MAX_CHARS_PER_LINE)) for a text of n
\* characters: lines 372-380
WrappedLineCount(n) ==
    IF n = 0 THEN 1
    ELSE (n + MSG_MAX_CHARS_PER_LINE - 1) \div MSG_MAX_CHARS_PER_LINE

\* lines 469-470: line_count = max(1, len(msg_lines));
\* row_height = BASE_ROW_H + (line_count - 1) * EXTRA_PER_LINE
ScRowHeight(item) ==
    LET line_count == IF WrappedLineCount(item.msg_len) >= 1
                      THEN WrappedLineCount(item.msg_len) ELSE 1
    IN BASE_ROW_H + (line_count - 1) * EXTRA_PER_LINE

\* line 484: header_h = 160
ScHeaderH == 160

\* line 491: table_padding_h=40
ScTablePaddingH == 40

\* line 450: col_widths = [350, 350, 300, 100, 700]
ColWidths == <<350, 350, 300, 100, 700>>

\* line 560: "Designed by QianQiuZy"
FooterText ==
    <<"D", "e", "s", "i", "g", "n", "e", "d", " ", "b", "y", " ",
      "Q", "i", "a", "n", "Q", "i", "u", "Z", "y">>

\* line 497: data_height
DataHeight(page_rows) ==
    IF page_rows # <<>>
    THEN SumSeq([k \in 1..Len(page_rows) |-> page_rows[k].row_height])
    ELSE BASE_ROW_H

\* lines 498-501: canvas_width = table_width = sum(col_widths) + 40
CanvasWidth == SumSeq(ColWidths) + 40

\* lines 499-501: table_height = table_header_h + data_height + 40;
\* canvas_height = header_h + table_height
CanvasHeight(page_rows) ==
    ScHeaderH + (BASE_ROW_H + DataHeight(page_rows) + 40)

\* lines 503, 559-563: the generator of a page after the footer is drawn
\* and the canvas cropped.  The calls between (lines 504-557) draw at
\* positions they set themselves and change neither the canvas size nor
\* the cursor that line 559 sets.
FinishedPage(page_rows) ==
    LET new == NewPic(CanvasWidth, CanvasHeight(page_rows),
                      DefaultAutoSizeMargin)
        at_footer == SetPos(new, CanvasWidth - 220,
                            CanvasHeight(page_rows) - 40)
        signed == DrawTextRight(at_footer, 0, <<FooterText>>, <<0, 0>>).pic
    IN CropAndPasteBottom(signed)

\* One page image: what pic.base64() encodes, lines 564 and 338-342
PageImage(page_no, page) ==
    [ page_no |-> page_no,
      ids |-> [k \in 1..Len(page[2]) |-> sc_sorted[page[2][k].id].id],
      canvas_height |-> CanvasHeight(page[2]),
      height |-> Len(FinishedPage(page[2]).canvas) ]

\* line 496: enumerate(pages, start=1), the page of number page_no
PageAt_reversed(ps, page_no) == ps[Len(ps) + 1 - page_no]

PageAt(ps, page_no) == ps[page_no]

\* lines 455-492: the rows of the sorted entries and the arguments of
\* _paginate_rows_by_height
ScRenderBuildRows ==
    /\ ScRenderFrame
    /\ sc_pc = "sorted"
    /\ pag_pc = "idle"
    /\ sc_rows' = [i \in 1..Len(sc_sorted) |-> ScRow(sc_sorted[i])]
    /\ sc_pc' = "rows"
    /\ rows' = [i \in 1..Len(sc_sorted) |-> Row(i, ScRowHeight(sc_sorted[i]))]
    /\ max_canvas_h' = SC_MAX_PAGE_HEIGHT
    /\ header_h' = ScHeaderH
    /\ table_header_h' = BASE_ROW_H
    /\ table_padding_h' = ScTablePaddingH
    /\ pag_pc' = "call"
    /\ UNCHANGED <<sc_list, sc_sorted, max_data_h, pages, cur, cur_h,
                   start_idx, global_idx, it, drawn, sc_images>>

\* lines 496-564: one iteration of `for page_no, (global_start_idx,
\* page_rows) in enumerate(pages, start=1)`
ScRenderPage ==
    /\ ScRenderFrame
    /\ pag_pc = "done"
    /\ Len(sc_images) < Len(pages)
    /\ LET page_no == Len(sc_images) + 1
       IN /\ drawn' = drawn \o DrawPageRows(PageAt(pages, page_no))
          /\ sc_images' = Append(sc_images,
                                 PageImage(page_no, PageAt(pages, page_no)))
          /\ pag_pc' = IF page_no = Len(pages) THEN "rendered" ELSE "done"
    /\ UNCHANGED <<scVars, rows, max_canvas_h, header_h, table_header_h,
                   table_padding_h, max_data_h, pages, cur, cur_h,
                   start_idx, global_idx, it>>

\* The entries tried: two send times and messages of 1, 3, 281, 561 and
\* 572 lines
ScRenderTimes ==
    { PyStr(<<"2", "0", "2", "5", "-", "0", "9", "-", "0", "1", " ", "1", "0", ":", "0", "0", ":", "0", "0">>),
      PyStr(<<"2", "0", "2", "5", "-", "0", "9", "-", "0", "1", " ", "0", "9", ":", "5", "9", ":", "5", "9">>) }

ScRenderMsgLens == {0, 41, 5620, 11220, 11440}

ScRenderLists(n) ==
    UNION { { [i \in 1..k |-> [id |-> i, send_time |-> e[i][1],
                               msg_len |-> e[i][2]]] :
                e \in [1..k -> ScRenderTimes \X ScRenderMsgLens] } :
            k \in 0..n }

RndInit == sc_images = <<>>

RndIdle == sc_images = <<>>

ScRenderNext ==
    \/ ScSort
    \/ ScRenderBuildRows
    \/ PaginateEnter
    \/ PaginateRow
    \/ PaginateReturn
    \/ ScRenderPage

-----------------------------------------------------------------------------
(* Specification Spec: pagination of every bounded row list under every    *)
(* bounded choice of the four height arguments.                            *)

PagInit ==
    /\ rows \in RowSeqs
    /\ max_canvas_h \in 0..MaxCanvasH
    /\ header_h \in 0..MaxPartH
    /\ table_header_h \in 0..MaxPartH
    /\ table_padding_h \in 0..MaxPartH
    /\ max_data_h = 0
    /\ pages = <<>>
    /\ cur = <<>>
    /\ cur_h = 0
    /\ start_idx = 0
    /\ global_idx = 0
    /\ it = 1
    /\ drawn = <<>>
    /\ pag_pc = "call"

PagNext ==
    \/ PaginateEnter
    \/ PaginateRow
    \/ PaginateReturn
    \/ RenderScPages

PagIdle ==
    /\ rows = <<>>
    /\ max_canvas_h = 0
    /\ header_h = 0
    /\ table_header_h = 0
    /\ table_padding_h = 0
    /\ max_data_h = 0
    /\ pages = <<>>
    /\ cur = <<>>
    /\ cur_h = 0
    /\ start_idx = 0
    /\ global_idx = 0
    /\ it = 1
    /\ drawn = <<>>
    /\ pag_pc = "idle"

Init ==
    /\ PagInit
    /\ MonIdle
    /\ FmtIdle
    /\ TblIdle
    /\ HdlIdle
    /\ ScIdle
    /\ TxtIdle
    /\ DurIdle
    /\ StIdle
    /\ MsgIdle
    /\ PicIdle
    /\ RndIdle

Next == PagNext

\* The function body is sequential code: every enabled step is taken.
Spec == Init /\ [][Next]_vars /\ WF_vars(Next)

(* Specification SpecMonth: both copies of normalize_month_arg applied to  *)
(* every bounded argument string.                                          *)

InitMonth ==
    /\ MonInit
    /\ PagIdle
    /\ FmtIdle
    /\ TblIdle
    /\ HdlIdle
    /\ ScIdle
    /\ TxtIdle
    /\ DurIdle
    /\ StIdle
    /\ MsgIdle
    /\ PicIdle
    /\ RndIdle

NextMonth == MonNext

SpecMonth == InitMonth /\ [][NextMonth]_vars

(* Specification SpecFormat: the field formatters applied to every bounded *)
(* value.                                                                  *)

InitFormat ==
    /\ FmtInit
    /\ PagIdle
    /\ MonIdle
    /\ TblIdle
    /\ HdlIdle
    /\ ScIdle
    /\ TxtIdle
    /\ DurIdle
    /\ StIdle
    /\ MsgIdle
    /\ PicIdle
    /\ RndIdle

NextFormat == FmtNext

SpecFormat == InitFormat /\ [][NextFormat]_vars

(* Specification SpecTable: the three table and card renderers applied to  *)
(* every bounded list of upstream records.                                 *)

InitTable ==
    /\ TblInit
    /\ PagIdle
    /\ MonIdle
    /\ FmtIdle
    /\ HdlIdle
    /\ ScIdle
    /\ TxtIdle
    /\ DurIdle
    /\ StIdle
    /\ MsgIdle
    /\ PicIdle
    /\ RndIdle

NextTable == TblNext

SpecTable == InitTable /\ [][NextTable]_vars

(* Specification SpecSc: render_sc_images sorting every list of at most    *)
(* MaxScRows entries with the send_time values of ScTimes.                 *)

InitSc ==
    /\ ScInit
    /\ PagIdle
    /\ MonIdle
    /\ FmtIdle
    /\ TblIdle
    /\ HdlIdle
    /\ TxtIdle
    /\ DurIdle
    /\ StIdle
    /\ MsgIdle
    /\ PicIdle
    /\ RndIdle

NextSc == ScNext

SpecSc == InitSc /\ [][NextSc]_vars

(* Specification SpecLimit: _limit_text_by_px applied to every text of at  *)
(* most MaxTextLen characters, and then to its own result.                 *)

InitLimit ==
    /\ LimitInit
    /\ PagIdle
    /\ MonIdle
    /\ FmtIdle
    /\ TblIdle
    /\ HdlIdle
    /\ ScIdle
    /\ DurIdle
    /\ StIdle
    /\ MsgIdle
    /\ PicIdle
    /\ RndIdle

NextLimit == LimitNext

SpecLimit == InitLimit /\ [][NextLimit]_vars

(* Specification SpecRuns: _split_runs_by_emoji on every text of at most  *)
(* MaxTextLen characters of RunChars.                                      *)

InitRuns ==
    /\ RunsInit
    /\ PagIdle
    /\ MonIdle
    /\ FmtIdle
    /\ TblIdle
    /\ HdlIdle
    /\ ScIdle
    /\ DurIdle
    /\ StIdle
    /\ MsgIdle
    /\ PicIdle
    /\ RndIdle

NextRuns == RunsNext

SpecRuns == InitRuns /\ [][NextRuns]_vars

(* Specification SpecTextLength: _text_length on every text, font and set  *)
(* of measurement methods that work.                                       *)

InitTextLength ==
    /\ TextLengthInit
    /\ PagIdle
    /\ MonIdle
    /\ FmtIdle
    /\ TblIdle
    /\ HdlIdle
    /\ ScIdle
    /\ DurIdle
    /\ StIdle
    /\ MsgIdle
    /\ PicIdle
    /\ RndIdle

NextTextLength == TextLengthNext

SpecTextLength == InitTextLength /\ [][NextTextLength]_vars

(* Specification SpecDuration: both duration formatters on every text of   *)
(* DurationTexts.                                                          *)

InitDuration ==
    /\ DurInit
    /\ PagIdle
    /\ MonIdle
    /\ FmtIdle
    /\ TblIdle
    /\ HdlIdle
    /\ ScIdle
    /\ TxtIdle
    /\ StIdle
    /\ MsgIdle
    /\ PicIdle
    /\ RndIdle

NextDuration == DurNext

SpecDuration == InitDuration /\ [][NextDuration]_vars

(* Specification SpecSessionTime: the time columns of one session for     *)
(* every start_time and end_time of SessionTimeValues and every now of     *)
(* SessionNows.                                                            *)

InitSessionTime ==
    /\ StInit
    /\ PagIdle
    /\ MonIdle
    /\ FmtIdle
    /\ TblIdle
    /\ HdlIdle
    /\ ScIdle
    /\ TxtIdle
    /\ DurIdle
    /\ MsgIdle
    /\ PicIdle
    /\ RndIdle

NextSessionTime == StNext

SpecSessionTime == InitSessionTime /\ [][NextSessionTime]_vars

(* Specification SpecMessage: the message cell of one super-chat entry    *)
(* for every message of MsgValues.                                         *)

InitMessage ==
    /\ MsgInit
    /\ PagIdle
    /\ MonIdle
    /\ FmtIdle
    /\ TblIdle
    /\ HdlIdle
    /\ ScIdle
    /\ TxtIdle
    /\ DurIdle
    /\ StIdle
    /\ PicIdle
    /\ RndIdle

NextMessage == MsgNext

SpecMessage == InitMessage /\ [][NextMessage]_vars

(* Specification SpecPic: one PicGenerator under every sequence of at     *)
(* most MaxPicOps calls of its positioning, text and cropping methods.     *)

InitPic ==
    /\ PicInit
    /\ PagIdle
    /\ MonIdle
    /\ FmtIdle
    /\ TblIdle
    /\ HdlIdle
    /\ ScIdle
    /\ TxtIdle
    /\ DurIdle
    /\ StIdle
    /\ MsgIdle
    /\ RndIdle

NextPic == PicNext

SpecPic == InitPic /\ [][NextPic]_vars

(* Specification SpecScRender: render_sc_images on every list of at most   *)
(* MaxRenderRows entries, from the sort to the last page image.            *)

ScRenderInit ==
    /\ sc_list \in ScRenderLists(MaxRenderRows)
    /\ sc_sorted = <<>>
    /\ sc_rows = <<>>
    /\ sc_pc = "start"
    /\ PagIdle
    /\ RndInit

InitScRender ==
    /\ ScRenderInit
    /\ MonIdle
    /\ FmtIdle
    /\ TblIdle
    /\ HdlIdle
    /\ TxtIdle
    /\ DurIdle
    /\ StIdle
    /\ MsgIdle
    /\ PicIdle

NextScRender == ScRenderNext

SpecScRender == InitScRender /\ [][NextScRender]_vars

(* Specification SpecHandler: every command with every argument text of    *)
(* HandlerArgs, under every outcome of its upstream requests.              *)

InitHandler ==
    /\ HdlInit
    /\ PagIdle
    /\ MonIdle
    /\ FmtIdle
    /\ TblIdle
    /\ ScIdle
    /\ TxtIdle
    /\ DurIdle
    /\ StIdle
    /\ MsgIdle
    /\ PicIdle
    /\ RndIdle

NextHandler == HdlNext

\* A handler is a coroutine that the event loop runs to its end.
SpecHandler == InitHandler /\ [][NextHandler]_vars /\ WF_vars(NextHandler)

-----------------------------------------------------------------------------
(* Claims about pagination.                                                *)

PagReturned == pag_pc \in {"done", "rendered"}

PageRows(p) == p[2]

PageHeight(p) == SumSeq([k \in 1..Len(p[2]) |-> p[2][k].row_height])

InputHeight == SumSeq([k \in 1..Len(rows) |-> rows[k].row_height])

\* The per-page data budget as the claims state it.
Budget ==
    LET d == max_canvas_h - header_h - table_header_h - table_padding_h
    IN IF d >= 1 THEN d ELSE 1

\* C1: the row lists of the returned pages, concatenated in page order, are
\* exactly the input sequence, and the page heights sum to the input height.
C1_PagesConcatIsInput ==
    PagReturned =>
        /\ Flatten([p \in 1..Len(pages) |-> PageRows(pages[p])]) = rows
        /\ SumSeq([p \in 1..Len(pages) |-> PageHeight(pages[p])]) = InputHeight

C1_Witness ==
    /\ PagReturned
    /\ Len(pages) >= 2
    /\ Len(rows) = 3
    /\ \E p \in 1..Len(pages) : Len(PageRows(pages[p])) >= 2

\* C2: no returned page has a content height above the budget, except a
\* page of exactly one row whose own height exceeds the budget.
C2_PageWithinBudget ==
    PagReturned =>
        \A p \in 1..Len(pages) :
            \/ PageHeight(pages[p]) <= Budget
            \/ /\ Len(PageRows(pages[p])) = 1
               /\ PageRows(pages[p])[1].row_height > Budget

C2_Witness ==
    /\ PagReturned
    /\ \E p \in 1..Len(pages) :
          Len(PageRows(pages[p])) >= 2 /\ PageHeight(pages[p]) = Budget
    /\ \E p \in 1..Len(pages) :
          Len(PageRows(pages[p])) = 1 /\ PageHeight(pages[p]) > Budget

\* C3: an empty input returns exactly the one page (0, []); a non-empty
\* input returns no page with zero rows.
C3_EmptyInputOnePage ==
    PagReturned =>
        /\ (rows = <<>> => pages = << <<0, <<>>>> >>)
        /\ (rows # <<>> => \A p \in 1..Len(pages) : PageRows(pages[p]) # <<>>)

C3_Witness ==
    /\ PagReturned
    /\ rows = <<>>
    /\ Len(pages) = 1

\* C4: for every row list and every choice of the four height arguments,
\* also those with a zero or negative raw budget, the function returns, and
\* every row higher than the budget is the only row of its page.
C4_TerminatesOversizedAlone ==
    /\ <>(pag_pc = "done")
    /\ [](PagReturned =>
            \A p \in 1..Len(pages) :
                \A k \in 1..Len(PageRows(pages[p])) :
                    PageRows(pages[p])[k].row_height > Budget
                        => Len(PageRows(pages[p])) = 1)

C4_Witness ==
    /\ PagReturned
    /\ max_canvas_h - header_h - table_header_h - table_padding_h < 0
    /\ Len(rows) = 3
    /\ Len(pages) = 3
    /\ \E k \in 1..Len(rows) : rows[k].row_height > Budget
    /\ \E k \in 1..Len(rows) : rows[k].row_height = 0

\* C5: the start index of every page is the number of rows on the pages
\* before it, so the row at position g (0-based) of the full list is drawn
\* light gray exactly when g is even, whatever page it is on.
C5_GlobalStripeParity ==
    /\ PagReturned =>
          \A p \in 1..Len(pages) :
              pages[p][1] =
                  SumSeq([q \in 1..(p - 1) |-> Len(PageRows(pages[q]))])
    /\ pag_pc = "rendered" =>
          /\ Len(drawn) = Len(rows)
          /\ \A g \in 1..Len(drawn) :
                /\ drawn[g].id = rows[g].id
                /\ (drawn[g].bg = "LIGHTGRAY") <=> ((g - 1) % 2 = 0)

C5_Witness ==
    /\ pag_pc = "rendered"
    /\ Len(pages) >= 2
    /\ pages[2][1] % 2 = 1
    /\ Len(PageRows(pages[2])) >= 2

-----------------------------------------------------------------------------
(* Claims about the formatters.                                            *)

\* The value a string of ASCII decimal digits denotes.
RECURSIVE DecimalValue(_)
DecimalValue(s) ==
    IF s = <<>> THEN 0
    ELSE 10 * DecimalValue(SubSeq(s, 1, Len(s) - 1))
         + (CHOOSE d \in 0..9 : Digits10[d + 1] = s[Len(s)])

\* s is the decimal integer string of n: an optional minus sign, ASCII
\* digits without a leading zero, denoting n.
IsDecimalStringOf(s, n) ==
    LET body == IF n < 0 /\ s # <<>> THEN Tail(s) ELSE s
        m == IF n < 0 THEN 0 - n ELSE n
    IN /\ s # <<>>
       /\ (n < 0 => s[1] = "-")
       /\ body # <<>>
       /\ \A i \in 1..Len(body) : body[i] \in AsciiDigits
       /\ (Len(body) > 1 => body[1] # "0")
       /\ DecimalValue(body) = m

\* C7: format_count returns "-" for None and the decimal integer string for
\* a present integer, "0" for 0; never "0" for None and never "-" for 0.
C7_FormatCountAbsentVsZero ==
    fmt_pc = "returned" =>
        /\ (count_v.t = "none" => count_out = <<"-">> /\ count_out # <<"0">>)
        /\ (count_v.t = "int" => IsDecimalStringOf(count_out, count_v.n))
        /\ (count_v = PyInt(0) => count_out = <<"0">> /\ count_out # <<"-">>)

C7_Witness ==
    /\ fmt_pc = "returned"
    /\ count_v = PyInt(0)
    /\ count_out = <<"0">>

\* The result the documentation of normalize_month_arg states: the trimmed
\* input with the dash removed when it is YYYYMM or YYYY-MM (digits 0-9)
\* with month field 01 to 12, and None for every other input.
IsMonthField(mm) ==
    /\ Len(mm) = 2
    /\ \A i \in 1..2 : mm[i] \in AsciiDigits
    /\ DecimalValue(mm) \in 1..12

IsYear(yyyy) == Len(yyyy) = 4 /\ \A i \in 1..4 : yyyy[i] \in AsciiDigits

ExpectedMonth(r) ==
    LET t == Strip(r)
    IN IF Len(t) = 6 /\ IsYear(SubSeq(t, 1, 4)) /\ IsMonthField(SubSeq(t, 5, 6))
       THEN Some(t)
       ELSE IF /\ Len(t) = 7
               /\ t[5] = "-"
               /\ IsYear(SubSeq(t, 1, 4))
               /\ IsMonthField(SubSeq(t, 6, 7))
       THEN Some(SubSeq(t, 1, 4) \o SubSeq(t, 6, 7))
       ELSE None

\* C9: normalize_month_arg returns the six-digit code YYYYMM for a trimmed
\* input YYYYMM or YYYY-MM with month 01 to 12 and None for every other
\* input, and the two copies agree on every input.
C9_MonthNormalization ==
    mon_pc = "both" =>
        /\ month_douchong = ExpectedMonth(raw)
        /\ month_query = ExpectedMonth(raw)
        /\ month_douchong = month_query

-----------------------------------------------------------------------------
(* Claims about the tables.                                                *)

\* The upstream record a drawn row or card belongs to, by its name.
UpstreamOf(name) ==
    CHOOSE u \in Range(upstream) : u.anchor_name.s = name

\* The amount a revenue component of an upstream record carries, in
\* tenths: its number when it is one, 0 when it is missing, null or not a
\* number.
ComponentAmount(val) ==
    CASE val.t = "float" -> val.n
      [] val.t = "int" -> 10 * val.n
      [] OTHER -> 0

ComponentSum(u) ==
    ComponentAmount(u.gift) + ComponentAmount(u.guard)
        + ComponentAmount(u.super_chat)

\* C6: for every record drawn by render_table_image, and for the record of
\* render_liushui_card, the displayed total and the value the sort key
\* reads are gift + guard + super_chat of the record's own components,
\* whatever "total" the upstream record carries.
C6_TotalRecomputed ==
    /\ tbl_pc = "table" =>
          /\ Len(table_cells) = Len(upstream)
          /\ \A i \in 1..Len(table_cells) :
                LET u == UpstreamOf(table_cells[i].anchor_name)
                IN /\ table_cells[i].total = Fmt1(ComponentSum(u))
                   /\ data_list[i].anchor_name = u.anchor_name
                   /\ data_list[i].total = PyFloat(ComponentSum(u))
    /\ tbl_pc = "card" =>
          card.total = Fmt1(ComponentSum(UpstreamOf(card.of)))

C6_Witness ==
    /\ tbl_pc = "table"
    /\ Len(table_cells) = 2
    /\ \E i \in 1..Len(table_cells) :
          LET u == UpstreamOf(table_cells[i].anchor_name)
          IN /\ u.total = PyFloat(990)
             /\ u.gift = PyFloat(15)
             /\ u.super_chat = PyFloat(25)
             /\ u.guard = PyInt(4)
             /\ table_cells[i].total = <<"8", ".", "0">>

IsAbsentValue(val) == val.t \in {"absent", "none"}

\* C8: in every rendered table a count metric (guard-tier counts, fan-club
\* count, blind-box count, effective days) that is absent upstream is drawn
\* as "-", and one that is present and 0 is drawn as "0".
C8_AbsentCountIsDash ==
    /\ tbl_pc = "table" =>
          \A i \in 1..Len(table_cells) : \A f \in CountFields :
              LET u == UpstreamOf(table_cells[i].anchor_name)[f]
              IN /\ (IsAbsentValue(u) => table_cells[i][f] = <<"-">>)
                 /\ (u = PyInt(0) => table_cells[i][f] = <<"0">>)
    /\ tbl_pc = "live" =>
          \A i \in 1..Len(session_cells) :
              LET u == sessions[i].blind_box_count
              IN /\ (IsAbsentValue(u) =>
                        session_cells[i].blind_box_count = <<"-">>)
                 /\ (u = PyInt(0) =>
                        session_cells[i].blind_box_count = <<"0">>)

-----------------------------------------------------------------------------
(* C10.  The month argument of a command: for the douchong commands the    *)
(* whole stripped argument, for the query commands the last of two or more *)
(* whitespace-separated words when it is written with digits and dashes    *)
(* only (the words before it being the anchor keyword).                    *)

IsMonthLike(tok) ==
    /\ tok # <<>>
    /\ \A i \in 1..Len(tok) : IsDecimal(tok[i]) \/ tok[i] = "-"

SuppliedMonth ==
    LET r == Strip(arg)
    IN IF cmd \in DouchongCmds \cup BrawlCmds
       THEN IF r # <<>> THEN Some(r) ELSE None
       ELSE IF r = <<>> THEN None
       ELSE LET parts == SplitWs(r)
            IN IF Len(parts) >= 2 /\ IsMonthLike(parts[Len(parts)])
               THEN Some(parts[Len(parts)])
               ELSE None

InvalidMonthSupplied ==
    /\ cmd \in DouchongCmds \cup BrawlCmds \cup LocateCmds \cup LiushuiCmds
    /\ SuppliedMonth # None
    /\ ExpectedMonth(SuppliedMonth[1]) = None

IsMonthFormatReply(r) ==
    r.kind = "text" /\ r.msg \in {"month_format", "month_format_brawl"}

\* C10: for each of the six commands, when the month argument supplied is
\* not YYYYMM or YYYY-MM with a month of 01..12, no upstream request is ever
\* issued, no image is sent, and the handler ends having sent exactly one
\* message, the month-format error text.
C10_InvalidMonthRejected ==
    InvalidMonthSupplied =>
        /\ fetches = <<>>
        /\ \A i \in 1..Len(reply) : IsMonthFormatReply(reply[i])
        /\ h_pc \in {"start", "done"}
        /\ h_pc = "done" => Len(reply) = 1


-----------------------------------------------------------------------------
(* C11.  Row order of render_table_image.                                  *)

\* The position a drawn record had in the input list (names are distinct).
InputPos(name) ==
    CHOOSE j \in 1..Len(upstream) : upstream[j].anchor_name.s = name

DrawnTotal(i) == ComponentSum(UpstreamOf(table_cells[i].anchor_name))

\* C11: the rows render_table_image draws are a permutation of the input
\* records, in non-increasing order of gift + super_chat + guard, and two
\* records with equal totals are drawn in the order they had in the input.
C11_SortedDescStable ==
    tbl_pc = "table" =>
        /\ Len(table_cells) = Len(upstream)
        /\ { InputPos(table_cells[i].anchor_name) :
               i \in 1..Len(table_cells) } = 1..Len(upstream)
        /\ \A i, j \in 1..Len(table_cells) :
              i < j =>
                 /\ DrawnTotal(i) >= DrawnTotal(j)
                 /\ DrawnTotal(i) = DrawnTotal(j) =>
                       InputPos(table_cells[i].anchor_name)
                          < InputPos(table_cells[j].anchor_name)

\* Input totals 500.0, 1200.0, 500.0 are drawn as records 2, 1, 3.
C11_Witness ==
    /\ tbl_pc = "table"
    /\ Len(upstream) = 3
    /\ upstream[1].gift = PyFloat(5000)
    /\ upstream[2].gift = PyFloat(12000)
    /\ upstream[3].gift = PyFloat(5000)
    /\ [i \in 1..3 |-> table_cells[i].anchor_name] = <<<<"2">>, <<"1">>, <<"3">>>>
    /\ table_cells[1].total = <<"1", "2", "0", "0", ".", "0">>


-----------------------------------------------------------------------------
(* C12.  Row order of render_sc_images.                                    *)

ScItem(id) == CHOOSE x \in Range(sc_list) : x.id = id

\* The text the sort key is computed from
ScKeyText(item) == PyToStr(Get(item, "send_time", PyStr(<<>>)))

\* Whether the entry's timestamp parses, and the datetime it parses to
ScParses(item) == Strptime(ScKeyText(item)) # None

ScParsed(item) == Strptime(ScKeyText(item))[1]

ScRowsBuilt == sc_pc = "rows"

ScRowsArePermutation ==
    /\ Len(sc_rows) = Len(sc_list)
    /\ { sc_rows[i].id : i \in 1..Len(sc_rows) } = 1..Len(sc_list)

\* C12 as stated: rows are in ascending order of send timestamp, every entry
\* without a parseable timestamp is before every entry with one, and
\* entries with equal keys keep their input order.
C12_ScAscendingUnparsedFirst ==
    ScRowsBuilt =>
        /\ ScRowsArePermutation
        /\ \A i, j \in 1..Len(sc_rows) :
              LET a == ScItem(sc_rows[i].id)
                  b == ScItem(sc_rows[j].id)
              IN /\ (i < j /\ ScParses(a) /\ ScParses(b)) =>
                       DtLessEq(ScParsed(a), ScParsed(b))
                 /\ (~ScParses(a) /\ ScParses(b)) => i < j
                 /\ (i < j /\ ScSortKey(a) = ScSortKey(b)) => a.id < b.id

\* C12 amended: as above, except that an entry without a parseable
\* timestamp is before every entry whose timestamp parses to a datetime
\* later than datetime.min; it ties with an entry whose timestamp is
\* exactly 0001-01-01 00:00:00, and the two keep their input order.
C12_ScAscendingUnparsedEarliest ==
    ScRowsBuilt =>
        /\ ScRowsArePermutation
        /\ \A i, j \in 1..Len(sc_rows) :
              LET a == ScItem(sc_rows[i].id)
                  b == ScItem(sc_rows[j].id)
              IN /\ (i < j /\ ScParses(a) /\ ScParses(b)) =>
                       DtLessEq(ScParsed(a), ScParsed(b))
                 /\ (~ScParses(a) /\ ScParses(b)
                        /\ ScParsed(b) # DatetimeMin) => i < j
                 /\ (i < j /\ ScSortKey(a) = ScSortKey(b)) => a.id < b.id

\* Fetched as 10:00:00, unparseable, 09:59:59: laid out as 2, 3, 1.
C12_Witness ==
    /\ ScRowsBuilt
    /\ Len(sc_list) = 3
    /\ ScParses(sc_list[1])
    /\ ~ScParses(sc_list[2])
    /\ ScParses(sc_list[3])
    /\ ScParsed(sc_list[3]) # ScParsed(sc_list[1])
    /\ DtLessEq(ScParsed(sc_list[3]), ScParsed(sc_list[1]))
    /\ [i \in 1..3 |-> sc_rows[i].id] = <<2, 3, 1>>


-----------------------------------------------------------------------------
(* C13.  _limit_text_by_px.                                                *)

\* C13: applying _limit_text_by_px to its own result returns that result,
\* and the measured width of the result, ellipsis included, is at most
\* max_px.
C13_LimitIdempotentWithinBudget ==
    txt_pc = "relimited" =>
        /\ relimited = limited
        /\ MeasureWithFallback(limited, avail) <= max_px


-----------------------------------------------------------------------------
(* C14.  Duration labels.                                                  *)

\* Whether s is three colon-separated integers as int() reads them
IsHms(s) ==
    LET parts == SplitOn(s, ":")
    IN Len(parts) = 3 /\ \A i \in 1..3 : IsIntLiteral(parts[i])

\* The seconds such a text stands for
HmsSeconds(s) ==
    LET parts == SplitOn(s, ":")
        v == [i \in 1..3 |-> ToInt(PyStr(parts[i]))[1]]
    IN 3600 * v[1] + 60 * v[2] + v[3]

IsDigitText(d) == d # <<>> /\ \A i \in 1..Len(d) : d[i] \in AsciiDigits

\* Whether digits "." digits is a decimal with the given number of places
\* and no superfluous leading zero
IsPlainDecimal(b, places) ==
    /\ Len(b) >= places + 2
    /\ b[Len(b) - places] = "."
    /\ IsDigitText(SubSeq(b, 1, Len(b) - places - 1))
    /\ IsDigitText(SubSeq(b, Len(b) - places + 1, Len(b)))
    /\ (Len(b) - places - 1 > 1 => b[1] # "0")

\* The number a plain decimal denotes, in units of its last place
PlainDecimalUnits(b, places) ==
    DigitsToInt(SubSeq(b, 1, Len(b) - places - 1)) * Pow10(places)
        + DigitsToInt(SubSeq(b, Len(b) - places + 1, Len(b)))

\* Whether label is a decimal of the given places, followed by the unit,
\* that is a nearest decimal to total / 3600 hours and carries a minus
\* sign exactly when total is negative
IsHoursLabel(label, total, places) ==
    /\ Len(label) >= Len(HoursSuffix) + places + 2
    /\ SubSeq(label, Len(label) - 1, Len(label)) = HoursSuffix
    /\ LET body == SubSeq(label, 1, Len(label) - 2)
           neg == body[1] = "-"
           mag == IF neg THEN Tail(body) ELSE body
       IN /\ neg <=> total < 0
          /\ IsPlainDecimal(mag, places)
          /\ LET k == PlainDecimalUnits(mag, places)
                 t == IF total < 0 THEN 0 - total ELSE total
                 d == t * Pow10(places) - 3600 * k
             IN 2 * d <= 3600 /\ 2 * d >= 0 - 3600

-----------------------------------------------------------------------------
(* C15..C18.  What the handlers reply under each outcome of their steps.   *)

HasReply(kind, msgs) ==
    \E i \in 1..Len(reply) : reply[i].kind = kind /\ reply[i].msg \in msgs

\* the texts that report a failed upstream request
FetchFailureMsgs == {"fetch_failed", "vr_failed", "psp_failed", "query_failed"}

SomeFetchFailed == \E j \in 1..Len(results) : results[j] = "error"

\* C15: every handler, under every outcome of its fetches and of its
\* rendering, ends having sent exactly one reply, and no exception of a
\* fetch or of a renderer leaves the handler.
C15_ExactlyOneReplyNoException ==
    cmd \in Commands =>
        /\ h_pc # "raised"
        /\ Len(reply) = (IF h_pc = "done" THEN 1 ELSE 0)

\* C16: in the anchor-search commands the "not found" reply is sent only
\* when no upstream request failed, and a handler that ends after a failed
\* request has replied with a fetch-failure text.
C16_NotFoundOnlyAfterSuccessfulFetch ==
    cmd \in LocateCmds \cup LiushuiCmds =>
        /\ HasReply("text", {"not_found"}) => ~SomeFetchFailed
        /\ h_pc = "done" /\ SomeFetchFailed => HasReply("text", FetchFailureMsgs)

\* C17: in the two commands that read both sources, once either request has
\* failed no image is sent and none is being rendered, whichever request is
\* answered first.
C17_NoImageAfterFailedFetch ==
    cmd \in BrawlCmds \cup LiushuiCmds /\ SomeFetchFailed =>
        /\ ~HasReply("image", {""})
        /\ h_pc # "render"

\* C18: a handler none of whose requests failed at the network or HTTP level
\* sends no fetch-failure text, whatever the shape of the payloads.
C18_BadShapeIsNoData ==
    cmd \in Commands /\ ~SomeFetchFailed => ~HasReply("text", FetchFailureMsgs)

-----------------------------------------------------------------------------
(* C19.  The runs of _split_runs_by_emoji.                                 *)

RECURSIVE ConcatRuns(_)
ConcatRuns(rs) ==
    IF rs = <<>> THEN <<>> ELSE rs[1].text \o ConcatRuns(Tail(rs))

\* the class of the run that character c opens
OpeningClass(c) == IF c \in {"U+FE0F", "U+200D"} THEN TRUE ELSE IsEmojiChar(c)

\* C19: the runs yielded are non-empty and spell the text; VS16 and ZWJ
\* stay in the run in progress and open a run (an emoji run) only at the
\* start of the text; every other character has the class of its run; and
\* no two consecutive runs have the same class.
C19_RunsAreMaximal ==
    txt_pc = "runs" =>
        /\ ConcatRuns(runs) = txt
        /\ \A k \in 1..Len(runs) :
              LET r == runs[k]
              IN /\ r.text # <<>>
                 /\ r.is_emoji = OpeningClass(r.text[1])
                 /\ r.text[1] \in {"U+FE0F", "U+200D"} => k = 1
                 /\ \A i \in 1..Len(r.text) :
                       r.text[i] \notin {"U+FE0F", "U+200D"} =>
                           IsEmojiChar(r.text[i]) = r.is_emoji
        /\ \A k \in 1..(Len(runs) - 1) :
              runs[k].is_emoji # runs[k + 1].is_emoji

\* "a", VS16 and an emoji: VS16 stays in the normal run of "a", the emoji
\* opens an emoji run
C19_Witness ==
    /\ txt_pc = "runs"
    /\ txt = <<"a", "U+FE0F", "U+1F600">>
    /\ runs = <<[text |-> <<"a", "U+FE0F">>, is_emoji |-> FALSE],
                [text |-> <<"U+1F600">>, is_emoji |-> TRUE]>>

-----------------------------------------------------------------------------
(* C20.  The fallback chain of _text_length.                               *)

\* C20: _text_length calls draw.textlength, font.getlength and draw.textbbox
\* in this order and stops at the first that does not raise, returning its
\* value (the advance, or for textbbox the inked width); when all three
\* raise it returns 10 times the number of characters.
C20_FirstWorkingMethod ==
    LET order == <<"textlength", "getlength", "textbbox">>
    IN /\ \E k \in 0..3 : tl_tried = SubSeq(order, 1, k)
       /\ \A k \in 1..(Len(tl_tried) - 1) : tl_tried[k] \notin avail
       /\ txt_pc = "measured" =>
             \/ /\ tl_tried # <<>>
                /\ tl_tried[Len(tl_tried)] \in avail
                /\ tl_out = IF tl_tried[Len(tl_tried)] = "textbbox"
                            THEN InkWidth(txt, font)
                            ELSE RunAdvance(txt, font)
             \/ /\ tl_tried = order
                /\ avail = {}
                /\ tl_out = 10 * Len(txt)

\* only draw.textbbox works: two methods raise, the third gives the inked
\* width of "aa"
C20_Witness ==
    /\ txt_pc = "measured"
    /\ txt = <<"a", "a">>
    /\ avail = {"textbbox"}
    /\ tl_tried = <<"textlength", "getlength", "textbbox">>
    /\ tl_out = 33

-----------------------------------------------------------------------------
(* C28.  Greedy pagination.                                                *)

\* C28: every returned page other than the last was closed only because the
\* next row did not fit: its content height plus the height of the first
\* row of the following page exceeds the per-page data budget.
C28_PagesAreGreedy ==
    PagReturned =>
        \A p \in 1..(Len(pages) - 1) :
            /\ PageRows(pages[p + 1]) # <<>>
            /\ PageHeight(pages[p]) + PageRows(pages[p + 1])[1].row_height
                   > Budget

\* a page of two rows that exactly fills the budget is followed by another
C28_Witness ==
    /\ PagReturned
    /\ Len(pages) = 2
    /\ Len(PageRows(pages[1])) = 2
    /\ PageHeight(pages[1]) = Budget
    /\ PageRows(pages[2])[1].row_height = 1

-----------------------------------------------------------------------------
(* C29.  _split_runs_by_emoji loses nothing.                               *)

\* C29: the texts of the runs yielded, concatenated in order, are the input
\* text; no run is empty; the empty text yields no run.
C29_RunsSpellTheText ==
    txt_pc = "runs" =>
        /\ ConcatRuns(runs) = txt
        /\ \A k \in 1..Len(runs) : runs[k].text # <<>>
        /\ txt = <<>> => runs = <<>>

\* a text that opens with a modifier and changes class twice: three runs
C29_Witness ==
    /\ txt_pc = "runs"
    /\ txt = <<"U+200D", "a", "U+2600">>
    /\ Len(runs) = 3

-----------------------------------------------------------------------------
(* C24.  Duration and end cell of a live session.                          *)

\* the instant a field holds, when it holds the text of one
InstantOf(val) ==
    CHOOSE i \in SessionInstants : val = PyStr(IsoText(i.dt))

IsKnown(val) == \E i \in SessionInstants : val = PyStr(IsoText(i.dt))

\* an end that is missing, null or empty
IsAbsentEnd(val) == val \in {PyAbsent, PyNone, PyStr(<<>>)}

\* the seconds a duration cell HH:MM:SS shows
ShownSeconds(cell) ==
    LET f == SplitOn(cell, ":")
    IN 3600 * DigitsToInt(f[1]) + 60 * DigitsToInt(f[2]) + DigitsToInt(f[3])

IsDurationCell(cell) ==
    /\ Len(SplitOn(cell, ":")) = 3
    /\ \A k \in 1..3 :
          /\ Len(SplitOn(cell, ":")[k]) >= 2
          /\ \A i \in 1..Len(SplitOn(cell, ":")[k]) :
                SplitOn(cell, ":")[k][i] \in AsciiDigits

\* what the row shows for the elapsed time wanted and the end cell wanted
RowShows(elapsed, end_cell) ==
    /\ IsDurationCell(st_row.duration)
    /\ ShownSeconds(st_row.duration) = elapsed
    /\ st_row.end = end_cell

\* C24 as stated: a session with a known start and a known end has duration
\* end - start and shows its end timestamp; with a known start and an absent
\* end it has duration now - start and shows the in-progress sentinel.
C24_SessionDurationAndEnd ==
    st_pc = "row" /\ IsKnown(st_sess["start_time"]) =>
        /\ IsKnown(st_sess["end_time"]) =>
              RowShows(InstantOf(st_sess["end_time"]).at
                           - InstantOf(st_sess["start_time"]).at,
                       st_sess["end_time"].s)
        /\ IsAbsentEnd(st_sess["end_time"]) =>
              RowShows(st_now.at - InstantOf(st_sess["start_time"]).at,
                       InProgress)

NonNegative(n) == IF n < 0 THEN 0 ELSE n

\* C24 amended: the duration is end - start, or now - start when the end is
\* absent, and zero when that difference is negative.
C24_SessionDurationClampedAndEnd ==
    st_pc = "row" /\ IsKnown(st_sess["start_time"]) =>
        /\ IsKnown(st_sess["end_time"]) =>
              RowShows(NonNegative(InstantOf(st_sess["end_time"]).at
                                     - InstantOf(st_sess["start_time"]).at),
                       st_sess["end_time"].s)
        /\ IsAbsentEnd(st_sess["end_time"]) =>
              RowShows(NonNegative(st_now.at
                                     - InstantOf(st_sess["start_time"]).at),
                       InProgress)

\* a session of 2 h 30 min 5 s with both ends known
C24_Witness ==
    /\ st_pc = "row"
    /\ st_sess["start_time"] = PyStr(IsoText(<<2025, 9, 1, 10, 0, 0>>))
    /\ st_sess["end_time"] = PyStr(IsoText(<<2025, 9, 1, 12, 30, 5>>))
    /\ st_row.duration = <<"0", "2", ":", "3", "0", ":", "0", "5">>
    /\ st_row.end = IsoText(<<2025, 9, 1, 12, 30, 5>>)

-----------------------------------------------------------------------------
(* C25.  The message cell of a super-chat row.                             *)

\* C25: the lines of the message cell, put end to end, are the cleaned
\* message; every line but the last has exactly 20 characters and the last
\* has 1 to 20 (an empty message gives one empty line); and the row height
\* is 60 + 28 * (line_count - 1).
C25_MessageLinesAndRowHeight ==
    msg_pc = "row" =>
        /\ Flatten(msg_lines) = msg_clean
        /\ Len(msg_lines) >= 1
        /\ \A k \in 1..(Len(msg_lines) - 1) : Len(msg_lines[k]) = 20
        /\ IF msg_clean = <<>>
           THEN msg_lines = << <<>> >>
           ELSE Len(msg_lines[Len(msg_lines)]) \in 1..20
        /\ msg_row_height = 60 + 28 * (Len(msg_lines) - 1)

\* a message of 41 characters after cleaning: lines of 20, 20 and 1, row
\* height 116
C25_Witness ==
    /\ msg_pc = "row"
    /\ Len(msg_clean) = 41
    /\ Len(msg_lines) = 3
    /\ Len(msg_lines[3]) = 1
    /\ msg_row_height = 116



\* The summed fallback widths of the segments of texts before segment i
WidthBefore(texts, i) ==
    SumSeq([j \in 1..(i - 1) |->
               MeasureWithFallback(texts[j], Range(Methods))])

DrewTextFromCursor ==
    /\ pic_call.op = "draw_text"
    /\ pic_call.origin = None

DrewTextAtOrigin ==
    /\ pic_call.op = "draw_text"
    /\ pic_call.origin # None

\* C21: draw_text called without an explicit origin from cursor (x0, y0)
\* draws segment i at x0 plus the summed fallback widths of the segments
\* before i, and leaves the cursor at (x0, y0 + 30 + row spacing); called
\* with an explicit origin it leaves the cursor unchanged.
C21_DrawTextFlow ==
    /\ DrewTextFromCursor =>
          LET x0 == pic_call.before.xy[1]
              y0 == pic_call.before.xy[2]
          IN /\ Len(pic_call.draws) = Len(pic_call.texts)
             /\ \A i \in 1..Len(pic_call.texts) :
                   pic_call.draws[i] =
                       [ x |-> x0 + WidthBefore(pic_call.texts, i),
                         y |-> y0, text |-> pic_call.texts[i] ]
             /\ pic.xy = <<x0, y0 + 30 + pic_call.before.row_space>>
    /\ DrewTextAtOrigin => pic.xy = pic_call.before.xy

\* a three-segment text was drawn from a cursor away from the corner with
\* the row spacing changed, the third segment to the right of the cursor
C21_Witness ==
    /\ DrewTextFromCursor
    /\ Len(pic_call.texts) = 3
    /\ pic_call.before.xy = <<7, 2>>
    /\ pic_call.before.row_space = 0
    /\ pic_call.draws[3].x > 7
    /\ pic.xy = <<7, 32>>

DrewTextRight == pic_call.op = "draw_text_right"

\* The text of a draw_text_right call, joined
RightText == Flatten(pic_call.texts)

\* The right edge of the text a draw_text_right call drew
RightEdge ==
    pic_call.draws[1].x + MeasureWithFallback(RightText, Range(Methods))

Larger(a, b) == IF a >= b THEN a ELSE b

\* What the claims C22 say of a draw_text_right call that drew at the y
\* given: the right edge, the y and the cursor afterwards
RightAlignedAt(y) ==
    /\ Len(pic_call.draws) = 1
    /\ pic_call.draws[1].text = RightText
    /\ RightEdge = pic_call.before.width - pic_call.margin_right
    /\ pic_call.draws[1].y = y
    /\ pic.xy = << pic_call.before.xy[1],
                   pic_call.draws[1].y + 30 + pic_call.before.row_space >>

\* C22 (as stated): draw_text_right draws its text with the right edge at
\* width - margin and at the larger of the cursor y and the supplied
\* minimum y, never above the supplied minimum; afterwards the cursor has
\* its x unchanged and its y is the drawn y plus 30 plus the row spacing.
C22_RightAlignedAtLargerOfCursorAndMinimum ==
    DrewTextRight =>
        /\ RightAlignedAt(Larger(pic_call.before.xy[2], pic_call.xy_limit[2]))
        /\ pic_call.draws[1].y >= pic_call.xy_limit[2]

\* C22 (amended): draw_text_right draws its text with the right edge at
\* width - margin and at the larger of the cursor y and the supplied
\* minimum y plus the generator's auto_size_margin, so never above the
\* supplied minimum when that margin is not negative; afterwards the
\* cursor has its x unchanged and its y is the drawn y plus 30 plus the
\* row spacing.
C22_RightAlignedAtLargerOfCursorAndMinimumPlusMargin ==
    DrewTextRight =>
        /\ RightAlignedAt(Larger(pic_call.before.xy[2],
                                 pic_call.xy_limit[2]
                                     + pic_call.before.auto_size_margin))
        /\ pic_call.before.auto_size_margin >= 0 =>
              pic_call.draws[1].y >= pic_call.xy_limit[2]

\* with the default margin of 10, a text 64 wide was drawn 5 from the right
\* edge from a cursor at y = 60 under a minimum y of 70: at (131, 80)
C22_Witness ==
    /\ DrewTextRight
    /\ pic_call.before.auto_size_margin = 10
    /\ pic_call.before.xy = <<0, 60>>
    /\ pic_call.xy_limit = <<0, 70>>
    /\ pic_call.margin_right = 5
    /\ pic_call.draws[1].x = 131
    /\ pic_call.draws[1].y = 80
    /\ pic.xy = <<0, 135>>

Cropped == pic_call.op = "crop_and_paste_bottom"

\* C23: crop_and_paste_bottom leaves a canvas of height cursor-y when no
\* bottom band was captured, and of height cursor-y + band-height with the
\* captured band in rows [cursor-y, cursor-y + band-height) when copy_bottom
\* captured one; it clears the captured band, so that a second call in a
\* row takes the no-band path.
C23_CropKeepsCursorHeightAndBand ==
    Cropped =>
        LET y == pic_call.before.xy[2]
            captured == pic_call.before.bottom_pic
        IN /\ captured = None => Len(pic.canvas) = y
           /\ captured # None =>
                 /\ Len(pic.canvas) = y + Len(captured[1])
                 /\ \A k \in 1..Len(captured[1]) :
                       pic.canvas[y + k] = captured[1][k]
           /\ pic.bottom_pic = None

\* the bottom row of the 4-row canvas was captured and the canvas cropped
\* with the cursor at y = 2: rows 0 and 1 and then the captured row 3
C23_Witness ==
    /\ Cropped
    /\ pic_call.before.bottom_pic = Some(<<3>>)
    /\ pic_call.before.xy[2] = 2
    /\ pic.canvas = <<0, 1, 3>>
    /\ pic.bottom_pic = None

\* render_sc_images has returned
ScRendered == sc_pc = "rows" /\ pag_pc = "rendered"

\* The height the whole list needs on one canvas: header, table header,
\* every row and the table padding
TotalContentHeight ==
    header_h + table_header_h + InputHeight + table_padding_h

\* The page images are numbered 1, 2, ... in the order returned
ImagesInPageOrder == \A k \in 1..Len(sc_images) : sc_images[k].page_no = k

\* The entries on the images, in the order of the images
ImageEntries == Flatten([k \in 1..Len(sc_images) |-> sc_images[k].ids])

OnLastPage(id) == id \in Range(sc_images[Len(sc_images)].ids)

\* C26 (as stated): for any super-chat list whose total content height
\* exceeds the 16000 px page budget, render_sc_images returns more than one
\* page image, in page order, and the last entry of the input list is on
\* the last page.
C26_OverBudgetListHasPagesLastInputLast ==
    (ScRendered /\ TotalContentHeight > 16000) =>
        /\ Len(sc_images) > 1
        /\ ImagesInPageOrder
        /\ OnLastPage(Len(sc_list))

\* C26 (amended): for any super-chat list of at least two entries whose
\* total content height exceeds the 16000 px page budget, render_sc_images
\* returns more than one page image, in page order, the entries running
\* through the pages in ascending send_time order, and the entry that is
\* last in that order is on the last page.
C26_OverBudgetListOfSeveralHasPagesLastSortedLast ==
    (ScRendered /\ Len(sc_list) >= 2 /\ TotalContentHeight > 16000) =>
        /\ Len(sc_images) > 1
        /\ ImagesInPageOrder
        /\ ImageEntries = [i \in 1..Len(sc_sorted) |-> sc_sorted[i].id]
        /\ OnLastPage(sc_sorted[Len(sc_sorted)].id)

\* two entries given latest first, the later with a message of 561 lines:
\* 16060 px of content, the earlier entry on page 1 and the later on page 2
C26_Witness ==
    /\ ScRendered
    /\ Len(sc_list) = 2
    /\ TotalContentHeight = 16060
    /\ Len(sc_images) = 2
    /\ sc_images[1].ids = <<2>>
    /\ sc_images[2].ids = <<1>>
    /\ sc_images[2].page_no = 2

\* The rows of the page of image k fit the per-page data budget
PageFitsBudget(k) == PageHeight(PageAt(pages, k)) <= max_data_h

\* C27: every super-chat page image whose rows fit the per-page data
\* budget (every page but one holding a single oversized row) is, after the
\* footer is drawn with draw_text_right and the canvas cropped by
\* crop_and_paste_bottom, at most 16000 px high.
C27_FinishedPageWithinMaximum ==
    \A k \in 1..Len(sc_images) :
        PageFitsBudget(k) => sc_images[k].height <= 16000
====
